---- MODULE Spec2Model ----
(***************************************************************************)
(* TecnicoFS: the in-memory file system of src/tecnicofs/fs/config.h (the  *)
(* file concatenates config.h, operations.c, state.c and state.h) and the  *)
(* three threaded test programs of src/unnamed/part_000.                   *)
(*                                                                         *)
(* Every API call is broken into the steps between which another thread    *)
(* can observe or change shared memory: one step per critical section of   *)
(* a mutex, one step per unprotected access to a shared inode field, one   *)
(* step per byte of a memcpy.  The build constants are scaled down (the    *)
(* relations between them are the ones of config.h) so that the state      *)
(* space is finite and small.                                              *)
(***************************************************************************)
EXTENDS Integers, Sequences, FiniteSets, TLC

(***************************************************************************)
(* Build constants (config.h, state.h), scaled.                            *)
(***************************************************************************)
\* config.h:7 (1024 in the build)
BLOCK_SIZE == 2
\* config.h:8 (1024 in the build)
DATA_BLOCKS == 7
\* config.h:9 (50 in the build)
INODE_TABLE_SIZE == 4
\* config.h:10 (20 in the build)
MAX_OPEN_FILES == 3
\* config.h:11 (40 in the build)
MAX_FILE_NAME == 3
\* config.h:15 (4 in the build)
INT_SIZE == 1
\* config.h:18 (10 in the build)
MAX_DIRECT_BLOCKS == 2
\* state.h: BLOCK_SIZE / sizeof(dir_entry_t) (7 in the build)
MAX_DIR_ENTRIES == 2
\* sizeof(void *) in tfs_handle_indirect_block (8 in the build)
PTR_SIZE == 2
\* config.h:5
ROOT_DIR_INUM == 0

\* config.h:19 (10240 = 10 * 1024)
MAX_BYTES_DIRECT_DATA == MAX_DIRECT_BLOCKS * BLOCK_SIZE
\* config.h:17 (272384 = (10 + 1024 / 4) * 1024)
MAX_BYTES == (MAX_DIRECT_BLOCKS + BLOCK_SIZE \div INT_SIZE) * BLOCK_SIZE
\* config.h:20 (11)
I_BLOCK_SIZE == MAX_DIRECT_BLOCKS + 1
\* config.h:552 (11)
REFERENCE_BLOCK_INDEX == MAX_DIRECT_BLOCKS + 1
\* config.h:551 (12)
FIRST_INDIRECT_BLOCK == MAX_DIRECT_BLOCKS + 2
\* size_t arithmetic is unsigned and wraps; 30 of its bits are kept, far more
\* than any byte count of this build needs
SIZE_MOD == 2^30

\* allocation_state_t
FREE == 0
TAKEN == 1
\* inode_type
T_FILE == 0
T_DIRECTORY == 1
\* open flags (operations.h), used as a set of flag names
TFS_O_CREAT == "CREAT"
TFS_O_TRUNC == "TRUNC"
TFS_O_APPEND == "APPEND"
\* a NULL pointer returned by data_block_get / inode_get
NULL == -1
\* the byte memset(..., -1, ...) stores
BYTE_FF == 255

(***************************************************************************)
(* Bounds of the model.                                                    *)
(***************************************************************************)
\* number of worker threads a test program starts (thread 0 is main)
NThreads == 2

Threads == 0..NThreads
Workers == 1..NThreads
Inumbers == 0..(INODE_TABLE_SIZE - 1)
Blocks == 0..(DATA_BLOCKS - 1)
Handles == 0..(MAX_OPEN_FILES - 1)

Min(a, b) == IF a < b THEN a ELSE b

VARIABLES
    \* inode_table_s
    freeinode_ts, inode_table,
    \* data_blocks_s
    free_blocks, fs_data,
    \* the root directory's block, seen as dir_entry_t[MAX_DIR_ENTRIES]
    dir_entry,
    \* fs_state_s
    free_open_file_entries, open_file_table,
    \* locks held across steps: owner thread or -1, and sets of readers
    open_file_mutex, inode_mutex, inode_rwlock,
    \* threads: program counter and locals of the call in progress
    th,
    \* the client program: calls still to make, and the calls completed
    prog, log,
    \* the process died of a NULL dereference / a store left its array
    segv, ub,
    \* some block reference was stored outside the indirect block's bytes
    oob_ref

vars == <<freeinode_ts, inode_table, free_blocks, fs_data, dir_entry,
          free_open_file_entries, open_file_table,
          open_file_mutex, inode_mutex, inode_rwlock,
          th, prog, log, segv, ub, oob_ref>>

fsvars == <<freeinode_ts, inode_table, free_blocks, fs_data, dir_entry,
            free_open_file_entries, open_file_table>>
lockvars == <<open_file_mutex, inode_mutex, inode_rwlock>>

(***************************************************************************)
(* Pure helpers of state.c / operations.c.                                 *)
(***************************************************************************)
valid_inumber(inumber) == inumber >= 0 /\ inumber < INODE_TABLE_SIZE

valid_block_number(b) == b >= 0 /\ b < DATA_BLOCKS

valid_file_handle(h) == h >= 0 /\ h < MAX_OPEN_FILES

\* a path is a sequence of characters; "/" must come first
valid_pathname(name) == Len(name) > 1 /\ name[1] = "/"

\* data_block_get: the block's index stands for the pointer, NULL if invalid
data_block_get(b) == IF valid_block_number(b) THEN b ELSE NULL

\* inode_get: the inumber stands for the pointer
inode_get(inumber) == IF valid_inumber(inumber) THEN inumber ELSE NULL

\* get_open_file_entry: never looks at free_open_file_entries
get_open_file_entry(h) == IF valid_file_handle(h) THEN h ELSE NULL

\* strncpy(d_name, sub_name, MAX_FILE_NAME - 1); d_name[MAX_FILE_NAME - 1] = 0
strncpy_name(sub_name) ==
    SubSeq(sub_name, 1, Min(Len(sub_name), MAX_FILE_NAME - 1))

\* character i of a C string, 0 from the terminator on
CharAt(s, i) == IF i <= Len(s) THEN s[i] ELSE "\\0"

\* strncmp(a, b, n) == 0
strncmp_eq(a, b, n) == \A i \in 1..n : CharAt(a, i) = CharAt(b, i)

\* the scan of find_in_dir over directory block d: first matching entry
find_in_dir_scan(d, sub_name) ==
    LET hits == {i \in 0..(MAX_DIR_ENTRIES - 1) :
                    /\ d[i].d_inumber /= -1
                    /\ strncmp_eq(d[i].d_name, sub_name, MAX_FILE_NAME)}
    IN IF hits = {} THEN -1
       ELSE d[CHOOSE i \in hits : \A j \in hits : i <= j].d_inumber

\* find_in_dir(ROOT_DIR_INUM, sub_name) on the current state
find_in_dir(sub_name) ==
    IF \/ inode_table[ROOT_DIR_INUM].i_node_type /= T_DIRECTORY
       \/ data_block_get(inode_table[ROOT_DIR_INUM].i_data_block) = NULL
    THEN -1
    ELSE find_in_dir_scan(dir_entry, sub_name)

\* tfs_lookup
tfs_lookup(name) ==
    IF ~valid_pathname(name) THEN -1 ELSE find_in_dir(Tail(name))

(***************************************************************************)
(* Threads and the client program.                                         *)
(***************************************************************************)
\* locals of a thread that is not inside a call
Idle ==
    [pc |-> "idle", op |-> "none", name |-> <<>>, flags |-> {}, fh |-> 0,
     n |-> 0, base |-> 0, stride |-> 0, inum |-> 0, offset |-> 0, i |-> 0, r |-> 0,
     at |-> 0, k |-> "", phase |-> "", dsize |-> 0, scan |-> 0, boff |-> 0, dst |-> 0, ibytes |-> 0, ws |-> 0, tw |-> 0, bw |-> 0, sz |-> 0, blk |-> 0, ib |-> 0,
     cp |-> {}, region |-> "", dbytes |-> 0, isize |-> 0, tr |-> 0,
     total |-> 0, rest |-> 0, out |-> <<>>, ret |-> 0,
     pre |-> [inum |-> -1, size |-> 0, offset |-> 0], saved |-> <<>>,
     savedfs |-> <<>>]

\* calls of a client program; href names the handle: <<-1, h>> is the
\* literal h, <<t, j>> is the value returned by the j-th call of thread t
OpenC(name, flags) ==
    [op |-> "open", name |-> name, flags |-> flags, href |-> <<-1, 0>>,
     n |-> 0, base |-> 0, stride |-> 0]
CloseC(href) ==
    [op |-> "close", name |-> <<>>, flags |-> {}, href |-> href,
     n |-> 0, base |-> 0, stride |-> 0]
WriteC(href, n, base, stride) ==
    [op |-> "write", name |-> <<>>, flags |-> {}, href |-> href,
     n |-> n, base |-> base, stride |-> stride]
ReadC(href, n) ==
    [op |-> "read", name |-> <<>>, flags |-> {}, href |-> href,
     n |-> n, base |-> 0, stride |-> 0]
InitC ==
    [op |-> "init", name |-> <<>>, flags |-> {}, href |-> <<-1, 0>>,
     n |-> 0, base |-> 0, stride |-> 0]
\* pthread_create of the workers followed by pthread_join of all of them
JoinC ==
    [op |-> "join", name |-> <<>>, flags |-> {}, href |-> <<-1, 0>>,
     n |-> 0, base |-> 0, stride |-> 0]

\* the handle a call passes
HandleOf(href) ==
    IF href[1] < 0 THEN href[2] ELSE log[href[1]][href[2]].ret

\* byte j (from 0) of the buffer a write passes
BufByte(base, stride, j) == base + stride * j

\* what a handle refers to, observed between calls (ghost)
Snapshot(h) ==
    IF valid_file_handle(h) /\ valid_inumber(open_file_table[h].of_inumber)
    THEN [inum |-> open_file_table[h].of_inumber,
          size |-> inode_table[open_file_table[h].of_inumber].i_size,
          offset |-> open_file_table[h].of_offset]
    ELSE [inum |-> -1, size |-> 0, offset |-> 0]

\* what a path refers to, observed between calls (ghost)
PathSnapshot(name) ==
    LET inum == tfs_lookup(name)
    IN IF valid_inumber(inum)
       THEN [inum |-> inum, size |-> inode_table[inum].i_size, offset |-> 0]
       ELSE [inum |-> -1, size |-> 0, offset |-> 0]

\* the allocation maps, the root directory and the open-file table (ghost)
Tables ==
    [freeinode_ts |-> freeinode_ts, free_blocks |-> free_blocks,
     dir_entry |-> dir_entry,
     free_open_file_entries |-> free_open_file_entries,
     open_file_table |-> open_file_table]

\* the inodes and the block pool (ghost)
Stores == [inode_table |-> inode_table, fs_data |-> fs_data]

\* the calls whose effect on the tables is recorded: the opens of main
Observed(t, op) == t = 0 /\ op = "open"

\* the calls whose effect on the tables, the inodes and the block pool is
\* recorded: those of main, which never run beside a worker's
ObservedAll(t) == t = 0

Running == ~segv /\ ~ub

(***************************************************************************)
(* tfs_init: state_init, then inode_create(T_DIRECTORY) takes inumber 0    *)
(* and data block 0.  Static storage starts zeroed.                        *)
(***************************************************************************)
InitFS ==
    /\ freeinode_ts = [i \in Inumbers |-> IF i = ROOT_DIR_INUM THEN TAKEN ELSE FREE]
    /\ inode_table = [i \in Inumbers |->
          IF i = ROOT_DIR_INUM
          THEN [i_node_type |-> T_DIRECTORY, i_size |-> BLOCK_SIZE,
                i_data_block |-> 0,
                i_block |-> [j \in 0..(I_BLOCK_SIZE - 1) |-> -1]]
          ELSE [i_node_type |-> 0, i_size |-> 0, i_data_block |-> 0,
                i_block |-> [j \in 0..(I_BLOCK_SIZE - 1) |-> 0]]]
    /\ free_blocks = [b \in Blocks |-> IF b = 0 THEN TAKEN ELSE FREE]
    /\ fs_data = [b \in Blocks |-> [j \in 0..(BLOCK_SIZE - 1) |-> 0]]
    /\ dir_entry = [e \in 0..(MAX_DIR_ENTRIES - 1) |->
                       [d_name |-> <<>>, d_inumber |-> -1]]
    /\ free_open_file_entries = [h \in Handles |-> FREE]
    /\ open_file_table = [h \in Handles |-> [of_inumber |-> 0, of_offset |-> 0]]
    /\ open_file_mutex = [h \in Handles |-> -1]
    /\ inode_mutex = [i \in Inumbers |-> -1]
    /\ inode_rwlock = [i \in Inumbers |-> {}]
    /\ th = [t \in Threads |-> Idle]
    /\ log = [t \in Threads |-> <<>>]
    /\ segv = FALSE
    /\ ub = FALSE
    /\ oob_ref = FALSE

(***************************************************************************)
(* The client: a thread makes the next call of its program and records     *)
(* what the call returned.  Workers run between pthread_create and         *)
(* pthread_join of main, that is while main's next call is JoinC.          *)
(***************************************************************************)
MainAtJoin ==
    th[0].pc = "idle" /\ prog[0] /= <<>> /\ Head(prog[0]).op = "join"

Call(t) ==
    /\ Running
    /\ th[t].pc = "idle"
    /\ prog[t] /= <<>>
    /\ Head(prog[t]).op /= "join"
    /\ t \in Workers => MainAtJoin
    /\ LET c == Head(prog[t])
           h == HandleOf(c.href)
       IN th' = [th EXCEPT ![t] = [Idle EXCEPT
                    !.pc = c.op, !.op = c.op, !.name = c.name, !.flags = c.flags,
                    !.fh = h, !.n = c.n, !.base = c.base,
                    !.stride = c.stride,
                    !.out = [j \in 1..c.n |-> 0],
                    !.pre = IF c.op = "open" THEN PathSnapshot(c.name)
                            ELSE Snapshot(h),
                    !.saved = IF Observed(t, c.op) \/ ObservedAll(t)
                              THEN Tables ELSE <<>>,
                    !.savedfs = IF ObservedAll(t) THEN Stores ELSE <<>>]]
    /\ prog' = [prog EXCEPT ![t] = Tail(@)]
    /\ UNCHANGED <<fsvars, lockvars, log, segv, ub, oob_ref>>

Join ==
    /\ Running
    /\ MainAtJoin
    /\ \A w \in Workers : th[w].pc = "idle" /\ prog[w] = <<>>
    /\ prog' = [prog EXCEPT ![0] = Tail(@)]
    /\ UNCHANGED <<fsvars, lockvars, th, log, segv, ub, oob_ref>>

Return(t) ==
    /\ Running
    /\ th[t].pc = "ret"
    /\ log' = [log EXCEPT ![t] = Append(@,
                  [op |-> th[t].op, name |-> th[t].name,
                   flags |-> th[t].flags, fh |-> th[t].fh, n |-> th[t].n,
                   base |-> th[t].base, stride |-> th[t].stride,
                   ret |-> th[t].ret, out |-> th[t].out,
                   pre |-> th[t].pre, at |-> th[t].at,
                   saved |-> th[t].saved,
                   after |-> IF ObservedAll(t) THEN Tables ELSE <<>>,
                   keptfs |-> IF ObservedAll(t)
                              THEN [f \in DOMAIN Stores |-> th[t].savedfs[f] = Stores[f]]
                              ELSE <<>>,
                   kept |-> IF Observed(t, th[t].op) \/ ObservedAll(t)
                            THEN [f \in DOMAIN Tables |-> th[t].saved[f] = Tables[f]]
                            ELSE <<>>,
                   node |-> IF th[t].op = "open" THEN PathSnapshot(th[t].name)
                            ELSE Snapshot(th[t].fh),
                   post |-> IF th[t].op = "open" THEN Snapshot(th[t].ret)
                            ELSE Snapshot(th[t].fh)])]
    /\ th' = [th EXCEPT ![t] = Idle]
    /\ UNCHANGED <<fsvars, lockvars, prog, segv, ub, oob_ref>>

\* the locals of thread t when its call returns v
Ret(t, v) == [th[t] EXCEPT !.pc = "ret", !.ret = v]

\* an unlock that is forgotten
inode_unlock_mutex_skip(m, i) == m

\* inode_unlock(inode, MUTEX) (config.h:1334-1340)
inode_unlock_mutex(m, i) == [m EXCEPT ![i] = -1]

(***************************************************************************)
(* tfs_open                                                                *)
(***************************************************************************)
\* config.h:72-78 and 123, 137-139: validate the path, look it up
\* (find_in_dir scans under fs_state_mutex) and branch
tfs_open_lookup(t) ==
    /\ Running
    /\ th[t].pc = "open"
    /\ LET inum == tfs_lookup(th[t].name)
       IN th' = [th EXCEPT ![t] =
            IF ~valid_pathname(th[t].name) THEN Ret(t, -1)
            ELSE IF inum >= 0 THEN [@ EXCEPT !.pc = "open_lock", !.inum = inum]
            ELSE IF TFS_O_CREAT \in th[t].flags
                 THEN [@ EXCEPT !.pc = "inode_create", !.i = 0]
            ELSE Ret(t, -1)]
    /\ UNCHANGED <<fsvars, lockvars, prog, log, segv, ub, oob_ref>>

\* config.h:80-93: inode_get, then inode_lock(inode, MUTEX)
tfs_open_lock(t) ==
    /\ Running
    /\ th[t].pc = "open_lock"
    /\ IF inode_get(th[t].inum) = NULL
       THEN /\ th' = [th EXCEPT ![t] = Ret(t, -1)]
            /\ UNCHANGED inode_mutex
       ELSE /\ inode_mutex[th[t].inum] = -1
            /\ inode_mutex' = [inode_mutex EXCEPT ![th[t].inum] = t]
            /\ th' = [th EXCEPT ![t].pc =
                        IF TFS_O_TRUNC \in th[t].flags
                        THEN "open_trunc" ELSE "open_offset"]
    /\ UNCHANGED <<fsvars, open_file_mutex, inode_rwlock, prog, log, segv, ub, oob_ref>>

\* config.h:99: if (inode->i_size > 0)
tfs_open_trunc(t) ==
    /\ Running
    /\ th[t].pc = "open_trunc"
    /\ th' = [th EXCEPT ![t].pc =
                IF inode_table[th[t].inum].i_size > 0
                THEN "open_free" ELSE "open_offset"]
    /\ UNCHANGED <<fsvars, lockvars, prog, log, segv, ub, oob_ref>>

\* data_block_free (config.h:928-943)
data_block_free(fb, b) == [fb EXCEPT ![b] = FREE]

\* config.h:100-106: data_block_free(inode->i_data_block); on failure the
\* inode is unlocked and open returns -1
tfs_open_free(t) ==
    /\ Running
    /\ th[t].pc = "open_free"
    /\ LET b == inode_table[th[t].inum].i_data_block
       IN IF ~valid_block_number(b)
          THEN /\ inode_mutex' = inode_unlock_mutex(inode_mutex, th[t].inum)
               /\ th' = [th EXCEPT ![t] = Ret(t, -1)]
               /\ UNCHANGED free_blocks
          ELSE /\ free_blocks' = data_block_free(free_blocks, b)
               /\ th' = [th EXCEPT ![t].pc = "open_zero"]
               /\ UNCHANGED inode_mutex
    /\ UNCHANGED <<freeinode_ts, inode_table, fs_data, dir_entry,
                   free_open_file_entries, open_file_table,
                   open_file_mutex, inode_rwlock, prog, log, segv, ub, oob_ref>>

\* config.h:108: inode->i_size = 0
tfs_open_zero(t) ==
    /\ Running
    /\ th[t].pc = "open_zero"
    /\ inode_table' = [inode_table EXCEPT ![th[t].inum].i_size = 0]
    /\ th' = [th EXCEPT ![t].pc = "open_offset"]
    /\ UNCHANGED <<freeinode_ts, free_blocks, fs_data, dir_entry,
                   free_open_file_entries, open_file_table,
                   lockvars, prog, log, segv, ub, oob_ref>>

\* the initial offset of config.h:112-116
open_offset(flags, i_size) == IF TFS_O_APPEND \in flags THEN i_size ELSE 0

\* config.h:112-120: initial offset, inode_unlock(inode, MUTEX)
tfs_open_offset(t) ==
    /\ Running
    /\ th[t].pc = "open_offset"
    /\ th' = [th EXCEPT ![t] = [@ EXCEPT
                !.pc = "open_add",
                !.offset = open_offset(th[t].flags,
                                       inode_table[th[t].inum].i_size)]]
    /\ inode_mutex' = inode_unlock_mutex(inode_mutex, th[t].inum)
    /\ UNCHANGED <<fsvars, open_file_mutex, inode_rwlock, prog, log, segv, ub, oob_ref>>

\* a slot that is handed out without being marked
mark_taken_skip(ts, i) == ts

\* inode_table_s.freeinode_ts[inumber] = TAKEN (config.h:696)
mark_taken(ts, i) == [ts EXCEPT ![i] = TAKEN]

\* inode_create(T_FILE), one iteration of the scan (config.h:686-738):
\* under inode_table_mutex, slot i is taken if it is FREE
inode_create(t) ==
    /\ Running
    /\ th[t].pc = "inode_create"
    /\ LET i == th[t].i
       IN IF i >= INODE_TABLE_SIZE
          THEN /\ th' = [th EXCEPT ![t] = Ret(t, -1)]
               /\ UNCHANGED <<freeinode_ts, inode_table>>
          ELSE IF freeinode_ts[i] = FREE
          THEN /\ freeinode_ts' = mark_taken(freeinode_ts, i)
               /\ inode_table' = [inode_table EXCEPT ![i] =
                     [i_node_type |-> T_FILE, i_size |-> 0,
                      i_data_block |-> -1,
                      i_block |-> [j \in 0..(I_BLOCK_SIZE - 1) |-> -1]]]
               /\ th' = [th EXCEPT ![t] = [@ EXCEPT
                            !.pc = "add_dir_entry", !.inum = i]]
          ELSE /\ th' = [th EXCEPT ![t].i = i + 1]
               /\ UNCHANGED <<freeinode_ts, inode_table>>
    /\ UNCHANGED <<free_blocks, fs_data, dir_entry, free_open_file_entries,
                   open_file_table, lockvars, prog, log, segv, ub, oob_ref>>

\* a scan that falls back on the last entry when none is empty
first_empty_entry_wrap(d) ==
    LET e == {i \in 0..(MAX_DIR_ENTRIES - 1) : d[i].d_inumber = -1}
    IN IF e = {} THEN MAX_DIR_ENTRIES - 1 ELSE CHOOSE i \in e : \A j \in e : i <= j

\* the first empty entry of a directory block, -1 if none
first_empty_entry(d) ==
    LET e == {i \in 0..(MAX_DIR_ENTRIES - 1) : d[i].d_inumber = -1}
    IN IF e = {} THEN -1 ELSE CHOOSE i \in e : \A j \in e : i <= j

\* add_dir_entry(ROOT_DIR_INUM, inum, name + 1) (config.h:798-849), and
\* offset = 0 (config.h:136)
add_dir_entry(t) ==
    /\ Running
    /\ th[t].pc = "add_dir_entry"
    /\ LET sub_name == Tail(th[t].name)
           e == first_empty_entry(dir_entry)
           ok == /\ valid_inumber(th[t].inum)
                 /\ inode_table[ROOT_DIR_INUM].i_node_type = T_DIRECTORY
                 /\ Len(sub_name) /= 0
                 /\ data_block_get(inode_table[ROOT_DIR_INUM].i_data_block) /= NULL
                 /\ e /= -1
       IN IF ok
          THEN /\ dir_entry' = [dir_entry EXCEPT ![e] =
                     [d_name |-> strncpy_name(sub_name),
                      d_inumber |-> th[t].inum]]
               /\ th' = [th EXCEPT ![t] = [@ EXCEPT
                            !.pc = "open_add", !.offset = 0]]
          ELSE /\ th' = [th EXCEPT ![t].pc = "inode_delete"]
               /\ UNCHANGED dir_entry
    /\ UNCHANGED <<freeinode_ts, inode_table, free_blocks, fs_data,
                   free_open_file_entries, open_file_table,
                   lockvars, prog, log, segv, ub, oob_ref>>

\* a delete that leaves the slot marked
mark_free_skip(ts, i) == ts

\* inode_table_s.freeinode_ts[inumber] = FREE (config.h:760)
mark_free(ts, i) == [ts EXCEPT ![i] = FREE]

\* inode_delete(inum) on the rollback path (config.h:133-134, 748-772)
inode_delete(t) ==
    /\ Running
    /\ th[t].pc = "inode_delete"
    /\ LET i == th[t].inum
       IN IF ~valid_inumber(i) \/ freeinode_ts[i] = FREE
          THEN UNCHANGED <<freeinode_ts, free_blocks>>
          ELSE /\ freeinode_ts' = mark_free(freeinode_ts, i)
               /\ free_blocks' =
                     IF /\ inode_table[i].i_size > 0
                        /\ valid_block_number(inode_table[i].i_data_block)
                     THEN data_block_free(free_blocks,
                                          inode_table[i].i_data_block)
                     ELSE free_blocks
    /\ th' = [th EXCEPT ![t] = Ret(t, -1)]
    /\ UNCHANGED <<inode_table, fs_data, dir_entry, free_open_file_entries,
                   open_file_table, lockvars, prog, log, segv, ub, oob_ref>>

\* a test that forgets the entry's state
is_open_in_range(fe, h) == valid_file_handle(h)

\* the test of remove_from_open_file_table (config.h:992-993)
is_open(fe, h) == valid_file_handle(h) /\ fe[h] = TAKEN

\* a scan that forgets to test the entry's state
first_free_entry_any(fe) == 0

\* a scan that falls back on the last entry when none is FREE
first_free_entry_wrap(fe) ==
    LET e == {h \in Handles : fe[h] = FREE}
    IN IF e = {} THEN MAX_OPEN_FILES - 1 ELSE CHOOSE h \in e : \A j \in e : h <= j

\* the entry add_to_open_file_table takes: the first FREE one, -1 if none
first_free_entry(fe) ==
    LET e == {h \in Handles : fe[h] = FREE}
    IN IF e = {} THEN -1 ELSE CHOOSE h \in e : \A j \in e : h <= j

\* config.h:144-150: add_to_open_file_table under fs_state_mutex
add_to_open_file_table(t) ==
    /\ Running
    /\ th[t].pc = "open_add"
    /\ LET h == first_free_entry(free_open_file_entries)
       IN /\ IF h = -1
             THEN UNCHANGED <<free_open_file_entries, open_file_table>>
             ELSE /\ free_open_file_entries' =
                        [free_open_file_entries EXCEPT ![h] = TAKEN]
                  /\ open_file_table' = [open_file_table EXCEPT ![h] =
                        [of_inumber |-> th[t].inum,
                         of_offset |-> th[t].offset]]
          /\ th' = [th EXCEPT ![t] = Ret(t, h)]
    /\ UNCHANGED <<freeinode_ts, inode_table, free_blocks, fs_data, dir_entry,
                   lockvars, prog, log, segv, ub, oob_ref>>

(***************************************************************************)
(* tfs_init called again                                                   *)
(***************************************************************************)
\* state_init marks every slot of a map FREE (config.h:633-634, 641-642,
\* 648-649)
state_init_map(m) == [x \in DOMAIN m |-> FREE]

\* a directory whose entries are left as they are
empty_entry_keep(e) == e

\* dir_entry[i].d_inumber = -1 (config.h:720-722); the name stays
empty_entry(e) == [e EXCEPT !.d_inumber = -1]

\* tfs_init (config.h:36-45): state_init (config.h:628-653), which also
\* initialises every lock, then inode_create(T_DIRECTORY) (config.h:686-724,
\* 730-732) with its data_block_alloc (config.h:901-921); every slot is FREE
\* after state_init, so each scan stops at its first FREE slot
tfs_init(t) ==
    /\ Running
    /\ th[t].pc = "init"
    /\ LET ts == state_init_map(freeinode_ts)
           fb == state_init_map(free_blocks)
           root == CHOOSE i \in Inumbers :
                       ts[i] = FREE /\ \A j \in Inumbers : ts[j] = FREE => i <= j
           b == CHOOSE x \in Blocks :
                    fb[x] = FREE /\ \A y \in Blocks : fb[y] = FREE => x <= y
       IN /\ freeinode_ts' = mark_taken(ts, root)
          /\ free_blocks' = [fb EXCEPT ![b] = TAKEN]
          /\ inode_table' = [inode_table EXCEPT ![root] =
                [i_node_type |-> T_DIRECTORY, i_size |-> BLOCK_SIZE,
                 i_data_block |-> b,
                 i_block |-> [j \in 0..(I_BLOCK_SIZE - 1) |-> -1]]]
          /\ th' = [th EXCEPT ![t] =
                       Ret(t, IF root /= ROOT_DIR_INUM THEN -1 ELSE 0)]
    /\ dir_entry' = [e \in 0..(MAX_DIR_ENTRIES - 1) |-> empty_entry(dir_entry[e])]
    /\ free_open_file_entries' = state_init_map(free_open_file_entries)
    /\ open_file_mutex' = [h \in Handles |-> -1]
    /\ inode_mutex' = [i \in Inumbers |-> -1]
    /\ inode_rwlock' = [i \in Inumbers |-> {}]
    /\ UNCHANGED <<fs_data, open_file_table, prog, log, segv, ub, oob_ref>>

(***************************************************************************)
(* tfs_close                                                               *)
(***************************************************************************)
\* remove_from_open_file_table (config.h:988-1005)
tfs_close(t) ==
    /\ Running
    /\ th[t].pc = "close"
    /\ LET h == th[t].fh
       IN IF ~is_open(free_open_file_entries, h)
          THEN /\ th' = [th EXCEPT ![t] = Ret(t, -1)]
               /\ UNCHANGED free_open_file_entries
          ELSE /\ free_open_file_entries' =
                     [free_open_file_entries EXCEPT ![h] = FREE]
               /\ th' = [th EXCEPT ![t] = Ret(t, 0)]
    /\ UNCHANGED <<freeinode_ts, inode_table, free_blocks, fs_data, dir_entry,
                   open_file_table, lockvars, prog, log, segv, ub, oob_ref>>

OpenSteps(t) ==
    \/ tfs_open_lookup(t)
    \/ tfs_open_lock(t)
    \/ tfs_open_trunc(t)
    \/ tfs_open_free(t)
    \/ tfs_open_zero(t)
    \/ tfs_open_offset(t)
    \/ inode_create(t)
    \/ add_dir_entry(t)
    \/ inode_delete(t)
    \/ add_to_open_file_table(t)

(***************************************************************************)
(* data_block_alloc (config.h:901-921): one iteration of the scan per      *)
(* step, each under data_blocks_mutex.  th[t].k names the step that        *)
(* continues with the result th[t].r.                                      *)
(***************************************************************************)
data_block_alloc(t) ==
    /\ Running
    /\ th[t].pc = "alloc"
    /\ LET b == th[t].scan
       IN IF b >= DATA_BLOCKS
          THEN /\ th' = [th EXCEPT ![t] = [@ EXCEPT !.pc = th[t].k, !.r = -1]]
               /\ UNCHANGED free_blocks
          ELSE IF free_blocks[b] = FREE
          THEN /\ free_blocks' = [free_blocks EXCEPT ![b] = TAKEN]
               /\ th' = [th EXCEPT ![t] = [@ EXCEPT !.pc = th[t].k, !.r = b]]
          ELSE /\ th' = [th EXCEPT ![t].scan = b + 1]
               /\ UNCHANGED free_blocks
    /\ UNCHANGED <<freeinode_ts, inode_table, fs_data, dir_entry,
                   free_open_file_entries, open_file_table,
                   lockvars, prog, log, segv, ub, oob_ref>>

\* the locals of a thread that calls data_block_alloc and goes on at k
StartAlloc(l, k) == [l EXCEPT !.pc = "alloc", !.scan = 0, !.k = k]

\* memset(block, -1, len) on the bytes of one block
memset_ff(bytes, len) ==
    [j \in 0..(BLOCK_SIZE - 1) |-> IF j < len THEN BYTE_FF ELSE bytes[j]]

\* an int stored at int-index idx of a block, little-endian
store_int(bytes, idx, v) ==
    [j \in 0..(BLOCK_SIZE - 1) |->
        IF j \div INT_SIZE = idx
        THEN (v \div (256 ^ (j % INT_SIZE))) % 256
        ELSE bytes[j]]

\* an offset kept per file instead of per open-file entry
of_offset_add_shared(oft, h, n) ==
    [g \in Handles |->
        IF oft[g].of_inumber = oft[h].of_inumber
        THEN [oft[g] EXCEPT !.of_offset = @ + n]
        ELSE oft[g]]

\* file->of_offset += n (config.h:1064, 1145, 1227, 1271)
of_offset_add(oft, h, n) == [oft EXCEPT ![h].of_offset = @ + n]

\* an unlock that is forgotten
inode_unlock_read_skip(rw, i, t) == rw

\* inode_unlock(inode, READ) (config.h:1325-1333)
inode_unlock_read(rw, i, t) == [rw EXCEPT ![i] = @ \ {t}]

\* an unlock that is forgotten
open_file_unlock_skip(m, h) == m

\* open_file_unlock(file, MUTEX) (config.h:1390-1405)
open_file_unlock(m, h) == [m EXCEPT ![h] = -1]

\* a count that is never rejected
nothing_to_do_never(n) == FALSE

\* to_write == 0 (config.h:166), len == 0 (config.h:310)
nothing_to_do(n) == n = 0

\* a lock that excludes nobody
open_file_lock_none(h, t) == t \in Threads

\* open_file_lock(file, MUTEX) (config.h:1354-1382): thread t gets past the
\* pthread_mutex_lock of handle h only while nobody holds it
open_file_lock(h, t) == open_file_mutex[h] = -1

(***************************************************************************)
(* tfs_write                                                               *)
(***************************************************************************)
\* config.h:166-180: to_write == 0 or an out-of-range handle return -1
tfs_write_begin(t) ==
    /\ Running
    /\ th[t].pc = "write"
    /\ th' = [th EXCEPT ![t] =
                IF nothing_to_do(th[t].n) THEN Ret(t, -1)
                ELSE IF get_open_file_entry(th[t].fh) = NULL THEN Ret(t, -1)
                ELSE [@ EXCEPT !.pc = "write_lock"]]
    /\ UNCHANGED <<fsvars, lockvars, prog, log, segv, ub, oob_ref>>

\* config.h:183-194: open_file_lock(file, MUTEX), inode_get; a NULL inode
\* unlocks the entry again and returns -1
tfs_write_lock(t) ==
    /\ Running
    /\ th[t].pc = "write_lock"
    /\ open_file_lock(th[t].fh, t)
    /\ LET inode == inode_get(open_file_table[th[t].fh].of_inumber)
       IN IF inode = NULL
          THEN /\ th' = [th EXCEPT ![t] = Ret(t, -1)]
               /\ UNCHANGED open_file_mutex
          ELSE /\ open_file_mutex' = [open_file_mutex EXCEPT ![th[t].fh] = t]
               /\ th' = [th EXCEPT ![t] = [@ EXCEPT
                            !.pc = "write_ilock", !.inum = inode,
                            !.at = open_file_table[th[t].fh].of_offset]]
    /\ UNCHANGED <<fsvars, inode_mutex, inode_rwlock, prog, log, segv, ub, oob_ref>>

\* config.h:196-201: inode_lock(inode, READ); nobody takes the rwlock in
\* write mode, so the read lock is granted at once
tfs_write_inode_lock(t) ==
    /\ Running
    /\ th[t].pc = "write_ilock"
    /\ inode_rwlock' = [inode_rwlock EXCEPT ![th[t].inum] = @ \cup {t}]
    /\ th' = [th EXCEPT ![t].pc = "write_case"]
    /\ UNCHANGED <<fsvars, open_file_mutex, inode_mutex, prog, log, segv, ub, oob_ref>>

\* config.h:203: i_size + to_write <= MAX_BYTES_DIRECT_DATA
tfs_write_case(t) ==
    /\ Running
    /\ th[t].pc = "write_case"
    /\ th' = [th EXCEPT ![t] =
                IF inode_table[th[t].inum].i_size + th[t].n <= MAX_BYTES_DIRECT_DATA
                THEN [@ EXCEPT !.pc = "wd_loop", !.region = "direct",
                               !.phase = "d", !.ws = th[t].n, !.i = 0, !.bw = 0, !.boff = 0]
                ELSE [@ EXCEPT !.pc = "write_case2"]]
    /\ UNCHANGED <<fsvars, lockvars, prog, log, segv, ub, oob_ref>>

\* config.h:225: i_size >= MAX_BYTES_DIRECT_DATA
tfs_write_case2(t) ==
    /\ Running
    /\ th[t].pc = "write_case2"
    /\ th' = [th EXCEPT ![t] =
                IF inode_table[th[t].inum].i_size >= MAX_BYTES_DIRECT_DATA
                THEN [@ EXCEPT !.pc = "hib_check", !.region = "indirect",
                               !.phase = "i", !.ws = th[t].n, !.bw = 0, !.boff = 0]
                ELSE [@ EXCEPT !.pc = "write_straddle"]]
    /\ UNCHANGED <<fsvars, lockvars, prog, log, segv, ub, oob_ref>>

\* config.h:254-257: direct_size, indirect_size (size_t arithmetic)
tfs_write_straddle(t) ==
    /\ Running
    /\ th[t].pc = "write_straddle"
    /\ LET direct_size ==
              (MAX_BYTES_DIRECT_DATA - inode_table[th[t].inum].i_size) % SIZE_MOD
           indirect_size == (th[t].n - direct_size) % SIZE_MOD
       IN th' = [th EXCEPT ![t] = [@ EXCEPT
                    !.pc = "wd_loop", !.region = "straddle", !.phase = "d",
                    !.ws = direct_size, !.dsize = direct_size,
                    !.isize = indirect_size,
                    !.i = 0, !.bw = 0, !.boff = 0]]
    /\ UNCHANGED <<fsvars, lockvars, prog, log, segv, ub, oob_ref>>

\* tfs_write_direct_region, loop head (config.h:1037-1039, 1070)
tfs_write_direct_region(t) ==
    /\ Running
    /\ th[t].pc = "wd_loop"
    /\ th' = [th EXCEPT ![t] =
                IF th[t].ws > 0 /\ th[t].i < REFERENCE_BLOCK_INDEX
                THEN IF inode_table[th[t].inum].i_size % BLOCK_SIZE = 0
                     THEN StartAlloc(@, "dbi_store")
                     ELSE [@ EXCEPT !.pc = "w_get"]
                ELSE [@ EXCEPT !.pc = "wd_done", !.dbytes = th[t].bw]]
    /\ UNCHANGED <<fsvars, lockvars, prog, log, segv, ub, oob_ref>>

\* direct_block_insert, config.h:1078: inode->i_data_block = data_block_alloc()
direct_block_insert_store(t) ==
    /\ Running
    /\ th[t].pc = "dbi_store"
    /\ inode_table' = [inode_table EXCEPT ![th[t].inum].i_data_block = th[t].r]
    /\ th' = [th EXCEPT ![t].pc = "dbi_get"]
    /\ UNCHANGED <<freeinode_ts, free_blocks, fs_data, dir_entry,
                   free_open_file_entries, open_file_table,
                   lockvars, prog, log, segv, ub, oob_ref>>

\* config.h:1080: block = data_block_get(inode->i_data_block)
direct_block_insert_get(t) ==
    /\ Running
    /\ th[t].pc = "dbi_get"
    /\ th' = [th EXCEPT ![t] = [@ EXCEPT
                !.pc = "dbi_chk",
                !.blk = data_block_get(inode_table[th[t].inum].i_data_block)]]
    /\ UNCHANGED <<fsvars, lockvars, prog, log, segv, ub, oob_ref>>

\* config.h:1082-1085: if (inode->i_data_block == -1) return -1, which makes
\* tfs_write_direct_region return -1 (config.h:1041-1044)
direct_block_insert_chk(t) ==
    /\ Running
    /\ th[t].pc = "dbi_chk"
    /\ th' = [th EXCEPT ![t] =
                IF inode_table[th[t].inum].i_data_block = -1
                THEN [@ EXCEPT !.pc = "wd_done", !.dbytes = -1]
                ELSE [@ EXCEPT !.pc = "dbi_memset"]]
    /\ UNCHANGED <<fsvars, lockvars, prog, log, segv, ub, oob_ref>>

\* config.h:1087: memset(block, -1, BLOCK_SIZE)
direct_block_insert_memset(t) ==
    /\ Running
    /\ th[t].pc = "dbi_memset"
    /\ IF th[t].blk = NULL
       THEN /\ segv' = TRUE
            /\ UNCHANGED <<fs_data, th>>
       ELSE /\ fs_data' = [fs_data EXCEPT ![th[t].blk] = memset_ff(@, BLOCK_SIZE)]
            /\ th' = [th EXCEPT ![t].pc = "dbi_link"]
            /\ UNCHANGED segv
    /\ UNCHANGED <<freeinode_ts, inode_table, free_blocks, dir_entry,
                   free_open_file_entries, open_file_table,
                   lockvars, prog, log, ub, oob_ref>>

\* the i_block slot direct_block_insert stores block number b into
direct_slot(b) == b - 1

\* config.h:1089: inode->i_block[inode->i_data_block - 1] = inode->i_data_block
direct_block_insert_link(t) ==
    /\ Running
    /\ th[t].pc = "dbi_link"
    /\ LET b == inode_table[th[t].inum].i_data_block
       IN IF direct_slot(b) \in 0..(I_BLOCK_SIZE - 1)
          THEN /\ inode_table' = [inode_table EXCEPT
                                    ![th[t].inum].i_block[direct_slot(b)] = b]
               /\ th' = [th EXCEPT ![t].pc = "w_get"]
               /\ UNCHANGED ub
          ELSE /\ ub' = TRUE
               /\ UNCHANGED <<inode_table, th>>
    /\ UNCHANGED <<freeinode_ts, free_blocks, fs_data, dir_entry,
                   free_open_file_entries, open_file_table,
                   lockvars, prog, log, segv, oob_ref>>

\* the region function a thread is in has failed: it returns -1
RegionFail(l) ==
    IF l.phase = "d" THEN [l EXCEPT !.pc = "wd_done", !.dbytes = -1]
    ELSE [l EXCEPT !.pc = "wi_done", !.ibytes = -1]

\* config.h:1047-1060 and 1124-1139: block = data_block_get(i_data_block),
\* then the number of bytes that go into this block
tfs_write_block(t) ==
    /\ Running
    /\ th[t].pc = "w_get"
    /\ LET block == data_block_get(inode_table[th[t].inum].i_data_block)
           off == open_file_table[th[t].fh].of_offset % BLOCK_SIZE
           ws == th[t].ws
       IN th' = [th EXCEPT ![t] =
                   IF block = NULL THEN RegionFail(@)
                   ELSE IF ws >= BLOCK_SIZE \/ BLOCK_SIZE - off < ws
                   THEN [@ EXCEPT !.pc = "w_copy", !.blk = block, !.dst = off,
                                  !.tw = BLOCK_SIZE - off,
                                  !.ws = ws - (BLOCK_SIZE - off),
                                  !.cp = 0..(BLOCK_SIZE - off - 1)]
                   ELSE [@ EXCEPT !.pc = "w_copy", !.blk = block, !.dst = off,
                                  !.tw = ws, !.ws = 0, !.cp = 0..(ws - 1)]]
    /\ UNCHANGED <<fsvars, lockvars, prog, log, segv, ub, oob_ref>>

\* config.h:1062 and 1142: memcpy, one byte per step in any order
tfs_write_memcpy(t) ==
    /\ Running
    /\ th[t].pc = "w_copy"
    /\ IF th[t].cp = {}
       THEN /\ th' = [th EXCEPT ![t].pc = "w_adv"]
            /\ UNCHANGED fs_data
       ELSE \E j \in th[t].cp :
            /\ fs_data' = [fs_data EXCEPT ![th[t].blk][th[t].dst + j] =
                    BufByte(th[t].base, th[t].stride, th[t].boff + th[t].bw + j)]
            /\ th' = [th EXCEPT ![t].cp = @ \ {j}]
    /\ UNCHANGED <<freeinode_ts, inode_table, free_blocks, dir_entry,
                   free_open_file_entries, open_file_table,
                   lockvars, prog, log, segv, ub, oob_ref>>

\* config.h:1064 and 1145: file->of_offset += to_write_block; then the load
\* half of inode->i_size += to_write_block
tfs_write_advance(t) ==
    /\ Running
    /\ th[t].pc = "w_adv"
    /\ open_file_table' = of_offset_add(open_file_table, th[t].fh, th[t].tw)
    /\ th' = [th EXCEPT ![t] = [@ EXCEPT
                 !.pc = "w_size", !.sz = inode_table[th[t].inum].i_size]]
    /\ UNCHANGED <<freeinode_ts, inode_table, free_blocks, fs_data, dir_entry,
                   free_open_file_entries,
                   lockvars, prog, log, segv, ub, oob_ref>>

\* config.h:1065-1066 and 1146-1147: the store half of i_size +=, then
\* bytes_written += to_write_block and the loop's i++
tfs_write_size(t) ==
    /\ Running
    /\ th[t].pc = "w_size"
    /\ inode_table' = [inode_table EXCEPT
                          ![th[t].inum].i_size = th[t].sz + th[t].tw]
    /\ th' = [th EXCEPT ![t] = [@ EXCEPT
                 !.pc = IF th[t].phase = "d" THEN "wd_loop" ELSE "wi_loop",
                 !.bw = th[t].bw + th[t].tw, !.i = th[t].i + 1]]
    /\ UNCHANGED <<freeinode_ts, free_blocks, fs_data, dir_entry,
                   free_open_file_entries, open_file_table,
                   lockvars, prog, log, segv, ub, oob_ref>>

\* tfs_write_direct_region has returned th[t].dbytes: config.h:205 goes on to
\* unlock, config.h:257 goes on to the test of line 259
tfs_write_direct_done(t) ==
    /\ Running
    /\ th[t].pc = "wd_done"
    /\ th' = [th EXCEPT ![t].pc =
                 IF th[t].region = "direct" THEN "write_unlock" ELSE "hib_check"]
    /\ UNCHANGED <<fsvars, lockvars, prog, log, segv, ub, oob_ref>>

\* where tfs_write goes on after config.h:227-229 / 259-261
AfterHandle(l) ==
    IF l.region = "indirect" THEN [l EXCEPT !.pc = "wi_loop"]
    ELSE [l EXCEPT !.pc = "straddle_chk"]

\* config.h:227 and 259: if (inode->i_block[MAX_DIRECT_BLOCKS] == -1)
\*     tfs_handle_indirect_block(inode), whose first statement allocates
tfs_write_handle_check(t) ==
    /\ Running
    /\ th[t].pc = "hib_check"
    /\ th' = [th EXCEPT ![t] =
                 IF inode_table[th[t].inum].i_block[MAX_DIRECT_BLOCKS] = -1
                 THEN StartAlloc(@, "hib_done")
                 ELSE AfterHandle(@)]
    /\ UNCHANGED <<fsvars, lockvars, prog, log, segv, ub, oob_ref>>

\* tfs_handle_indirect_block, config.h:1180-1185; the caller ignores the
\* returned -1
tfs_handle_indirect_block(t) ==
    /\ Running
    /\ th[t].pc = "hib_done"
    /\ IF th[t].r = -1
       THEN /\ th' = [th EXCEPT ![t] = AfterHandle(@)]
            /\ UNCHANGED inode_table
       ELSE /\ inode_table' = [inode_table EXCEPT
                   ![th[t].inum].i_block[MAX_DIRECT_BLOCKS] = th[t].r,
                   ![th[t].inum].i_data_block = th[t].r]
            /\ th' = [th EXCEPT ![t].pc = "hib_memset"]
    /\ UNCHANGED <<freeinode_ts, free_blocks, fs_data, dir_entry,
                   free_open_file_entries, open_file_table,
                   lockvars, prog, log, segv, ub, oob_ref>>

\* config.h:1187: memset(data_block_get(inode->i_data_block), -1,
\* sizeof(pointer))
tfs_handle_indirect_memset(t) ==
    /\ Running
    /\ th[t].pc = "hib_memset"
    /\ LET block == data_block_get(inode_table[th[t].inum].i_data_block)
       IN IF block = NULL
          THEN /\ segv' = TRUE
               /\ UNCHANGED <<fs_data, th>>
          ELSE /\ fs_data' = [fs_data EXCEPT ![block] = memset_ff(@, PTR_SIZE)]
               /\ th' = [th EXCEPT ![t] = AfterHandle(@)]
               /\ UNCHANGED segv
    /\ UNCHANGED <<freeinode_ts, inode_table, free_blocks, dir_entry,
                   free_open_file_entries, open_file_table,
                   lockvars, prog, log, ub, oob_ref>>

\* config.h:263-279: a failed direct part ends the call, otherwise the
\* indirect part is written from buffer + direct_size
tfs_write_straddle_chk(t) ==
    /\ Running
    /\ th[t].pc = "straddle_chk"
    /\ th' = [th EXCEPT ![t] =
                 IF th[t].dbytes = -1 THEN [@ EXCEPT !.pc = "write_unlock"]
                 ELSE [@ EXCEPT !.pc = "wi_loop", !.phase = "i",
                                !.boff = th[t].dsize,
                                !.ws = th[t].isize, !.bw = 0]]
    /\ UNCHANGED <<fsvars, lockvars, prog, log, segv, ub, oob_ref>>

\* tfs_write_indirect_region, loop head and clamp (config.h:1108-1112, 1152)
tfs_write_indirect_region(t) ==
    /\ Running
    /\ th[t].pc = "wi_loop"
    /\ LET size == inode_table[th[t].inum].i_size
       IN th' = [th EXCEPT ![t] =
                   IF th[t].ws > 0
                   THEN [@ EXCEPT !.pc = "wi_chk",
                                  !.ws = IF size + th[t].ws > MAX_BYTES
                                         THEN (MAX_BYTES - size) % SIZE_MOD
                                         ELSE th[t].ws]
                   ELSE [@ EXCEPT !.pc = "wi_done", !.ibytes = th[t].bw]]
    /\ UNCHANGED <<fsvars, lockvars, prog, log, segv, ub, oob_ref>>

\* config.h:1114 and indirect_block_insert's first two statements
\* (config.h:1157-1159)
tfs_write_indirect_chk(t) ==
    /\ Running
    /\ th[t].pc = "wi_chk"
    /\ LET inode == inode_table[th[t].inum]
       IN th' = [th EXCEPT ![t] =
                   IF inode.i_size % BLOCK_SIZE = 0
                   THEN [StartAlloc(@, "ibi_done") EXCEPT
                            !.ib = data_block_get(inode.i_block[MAX_DIRECT_BLOCKS])]
                   ELSE [@ EXCEPT !.pc = "w_get"]]
    /\ UNCHANGED <<fsvars, lockvars, prog, log, segv, ub, oob_ref>>

\* config.h:1161-1166: a failed allocation makes the region return -1
\* (config.h:1118-1121), otherwise inode->i_data_block = block_number
indirect_block_insert_store(t) ==
    /\ Running
    /\ th[t].pc = "ibi_done"
    /\ IF th[t].r = -1
       THEN /\ th' = [th EXCEPT ![t] = RegionFail(@)]
            /\ UNCHANGED inode_table
       ELSE /\ inode_table' = [inode_table EXCEPT
                                  ![th[t].inum].i_data_block = th[t].r]
            /\ th' = [th EXCEPT ![t].pc = "ibi_memset"]
    /\ UNCHANGED <<freeinode_ts, free_blocks, fs_data, dir_entry,
                   free_open_file_entries, open_file_table,
                   lockvars, prog, log, segv, ub, oob_ref>>

\* config.h:1168: memset(data_block_get(block_number), -1,
\* BLOCK_SIZE / sizeof(int))
indirect_block_insert_memset(t) ==
    /\ Running
    /\ th[t].pc = "ibi_memset"
    /\ fs_data' = [fs_data EXCEPT
                      ![th[t].r] = memset_ff(@, BLOCK_SIZE \div INT_SIZE)]
    /\ th' = [th EXCEPT ![t].pc = "ibi_link"]
    /\ UNCHANGED <<freeinode_ts, inode_table, free_blocks, dir_entry,
                   free_open_file_entries, open_file_table,
                   lockvars, prog, log, segv, ub, oob_ref>>

\* the int index indirect_block_insert stores block number b at
indirect_slot(b) == b - FIRST_INDIRECT_BLOCK

\* config.h:1170: last_i_block[block_number - FIRST_INDIRECT_BLOCK] =
\* block_number.  A block's bytes are the first BLOCK_SIZE of a wider stride
\* (config.h:952, fs_data is an array of allocation_state_t), so a store past
\* them lands in bytes no read or write of a file reaches.
indirect_block_insert_link(t) ==
    /\ Running
    /\ th[t].pc = "ibi_link"
    /\ IF th[t].ib = NULL
       THEN /\ segv' = TRUE
            /\ UNCHANGED <<fs_data, th, oob_ref>>
            /\ UNCHANGED ub
       ELSE IF th[t].ib = 0 /\ indirect_slot(th[t].r) < 0
       THEN \* a store in front of the first byte of fs_data
            /\ ub' = TRUE
            /\ UNCHANGED <<fs_data, th, oob_ref, segv>>
       ELSE /\ IF indirect_slot(th[t].r) \in 0..((BLOCK_SIZE \div INT_SIZE) - 1)
               THEN /\ fs_data' = [fs_data EXCEPT ![th[t].ib] =
                           store_int(@, indirect_slot(th[t].r), th[t].r)]
                    /\ UNCHANGED oob_ref
               ELSE /\ oob_ref' = TRUE
                    /\ UNCHANGED fs_data
            /\ th' = [th EXCEPT ![t].pc = "w_get"]
            /\ UNCHANGED <<segv, ub>>
    /\ UNCHANGED <<freeinode_ts, inode_table, free_blocks, dir_entry,
                   free_open_file_entries, open_file_table,
                   lockvars, prog, log>>

\* tfs_write_indirect_region has returned th[t].ibytes
tfs_write_indirect_done(t) ==
    /\ Running
    /\ th[t].pc = "wi_done"
    /\ th' = [th EXCEPT ![t].pc = "write_unlock"]
    /\ UNCHANGED <<fsvars, lockvars, prog, log, segv, ub, oob_ref>>

\* the value tfs_write returns (config.h:218-222, 244-248, 263-297)
write_result(l) ==
    CASE l.region = "direct" -> l.dbytes
      [] l.region = "indirect" -> l.ibytes
      [] OTHER -> IF l.dbytes = -1 \/ l.ibytes = -1 THEN -1
                  ELSE l.dbytes + l.ibytes

\* inode_unlock(inode, READ), the first of the two unlocks on every path
tfs_write_unlock(t) ==
    /\ Running
    /\ th[t].pc = "write_unlock"
    /\ inode_rwlock' = inode_unlock_read(inode_rwlock, th[t].inum, t)
    /\ th' = [th EXCEPT ![t].pc = "write_unlock2"]
    /\ UNCHANGED <<fsvars, open_file_mutex, inode_mutex, prog, log, segv, ub, oob_ref>>

\* open_file_unlock(file, MUTEX) after the inode_unlock, then the return
\* value (config.h:214-300)
tfs_write_file_unlock(t) ==
    /\ Running
    /\ th[t].pc = "write_unlock2"
    /\ open_file_mutex' = open_file_unlock(open_file_mutex, th[t].fh)
    /\ th' = [th EXCEPT ![t] = Ret(t, write_result(th[t]))]
    /\ UNCHANGED <<fsvars, inode_mutex, inode_rwlock, prog, log, segv, ub, oob_ref>>

WriteSteps(t) ==
    \/ tfs_write_begin(t) \/ tfs_write_lock(t) \/ tfs_write_inode_lock(t)
    \/ tfs_write_case(t)
    \/ tfs_write_case2(t) \/ tfs_write_straddle(t)
    \/ tfs_write_direct_region(t) \/ data_block_alloc(t)
    \/ direct_block_insert_store(t) \/ direct_block_insert_get(t)
    \/ direct_block_insert_chk(t) \/ direct_block_insert_memset(t)
    \/ direct_block_insert_link(t) \/ tfs_write_block(t)
    \/ tfs_write_memcpy(t) \/ tfs_write_advance(t) \/ tfs_write_size(t)
    \/ tfs_write_direct_done(t) \/ tfs_write_handle_check(t)
    \/ tfs_handle_indirect_block(t) \/ tfs_handle_indirect_memset(t)
    \/ tfs_write_straddle_chk(t) \/ tfs_write_indirect_region(t)
    \/ tfs_write_indirect_chk(t) \/ indirect_block_insert_store(t)
    \/ indirect_block_insert_memset(t) \/ indirect_block_insert_link(t)
    \/ tfs_write_indirect_done(t) \/ tfs_write_unlock(t)
    \/ tfs_write_file_unlock(t)

(***************************************************************************)
(* tfs_read                                                                *)
(***************************************************************************)
\* config.h:310-324: len == 0 or an out-of-range handle return -1
tfs_read_begin(t) ==
    /\ Running
    /\ th[t].pc = "read"
    /\ th' = [th EXCEPT ![t] =
                IF nothing_to_do(th[t].n) THEN Ret(t, -1)
                ELSE IF get_open_file_entry(th[t].fh) = NULL THEN Ret(t, -1)
                ELSE [@ EXCEPT !.pc = "read_lock"]]
    /\ UNCHANGED <<fsvars, lockvars, prog, log, segv, ub, oob_ref>>

\* config.h:326-337: open_file_lock(file, MUTEX), inode_get; a NULL inode
\* unlocks the entry again and returns -1
tfs_read_lock(t) ==
    /\ Running
    /\ th[t].pc = "read_lock"
    /\ open_file_lock(th[t].fh, t)
    /\ LET inode == inode_get(open_file_table[th[t].fh].of_inumber)
       IN IF inode = NULL
          THEN /\ th' = [th EXCEPT ![t] = Ret(t, -1)]
               /\ UNCHANGED open_file_mutex
          ELSE /\ open_file_mutex' = [open_file_mutex EXCEPT ![th[t].fh] = t]
               /\ th' = [th EXCEPT ![t] = [@ EXCEPT
                            !.pc = "read_ilock", !.inum = inode,
                            !.at = open_file_table[th[t].fh].of_offset]]
    /\ UNCHANGED <<fsvars, inode_mutex, inode_rwlock, prog, log, segv, ub, oob_ref>>

\* config.h:339-344: inode_lock(inode, READ); nobody takes the rwlock in
\* write mode, so the read lock is granted at once
tfs_read_inode_lock(t) ==
    /\ Running
    /\ th[t].pc = "read_ilock"
    /\ inode_rwlock' = [inode_rwlock EXCEPT ![th[t].inum] = @ \cup {t}]
    /\ th' = [th EXCEPT ![t].pc = "read_case"]
    /\ UNCHANGED <<fsvars, open_file_mutex, inode_mutex, prog, log, segv, ub, oob_ref>>

\* config.h:347-351: to_read = inode->i_size - file->of_offset in size_t,
\* clamped to len
read_amount(i_size, of_offset, len) ==
    Min((i_size - of_offset) % SIZE_MOD, len)

\* config.h:347-354, 378, 403-411: which region functions the read calls
tfs_read_case(t) ==
    /\ Running
    /\ th[t].pc = "read_case"
    /\ LET off == open_file_table[th[t].fh].of_offset
           to_read == read_amount(inode_table[th[t].inum].i_size, off, th[t].n)
           in_direct == IF to_read + off > MAX_BYTES_DIRECT_DATA
                        THEN (MAX_BYTES_DIRECT_DATA - off) % SIZE_MOD ELSE 0
       IN th' = [th EXCEPT ![t] =
                   IF (off + to_read) % SIZE_MOD <= MAX_BYTES_DIRECT_DATA
                   THEN [@ EXCEPT !.pc = "rd_enter", !.region = "direct",
                                  !.tr = to_read, !.boff = 0]
                   ELSE IF off >= MAX_BYTES_DIRECT_DATA
                   THEN [@ EXCEPT !.pc = "ri_loop", !.region = "indirect",
                                  !.phase = "i", !.tr = to_read, !.boff = 0,
                                  !.bw = 0]
                   ELSE [@ EXCEPT !.pc = "rd_enter", !.region = "straddle",
                                  !.tr = in_direct, !.boff = 0,
                                  !.rest = (to_read - in_direct) % SIZE_MOD]]
    /\ UNCHANGED <<fsvars, lockvars, prog, log, segv, ub, oob_ref>>

\* config.h:1206: tfs_read_direct_region reads only when
\* of_offset + to_read <= MAX_BYTES_DIRECT_DATA
tfs_read_direct_enter(t) ==
    /\ Running
    /\ th[t].pc = "rd_enter"
    /\ LET off == open_file_table[th[t].fh].of_offset
       IN th' = [th EXCEPT ![t] =
                   IF (off + th[t].tr) % SIZE_MOD <= MAX_BYTES_DIRECT_DATA
                   THEN [@ EXCEPT !.pc = "rd_loop", !.phase = "d", !.bw = 0]
                   ELSE [@ EXCEPT !.pc = "rd_done", !.dbytes = 0]]
    /\ UNCHANGED <<fsvars, lockvars, prog, log, segv, ub, oob_ref>>

\* the block tfs_read_direct_region reads at an offset (config.h:1201, 1230)
direct_read_block(of_offset) == (of_offset \div BLOCK_SIZE) + 1

\* the block tfs_read_indirect_region reads at an offset (config.h:1250, 1274)
indirect_read_block(of_offset) == (of_offset \div BLOCK_SIZE) + 2

\* config.h:1216-1223 and 1260-1267: the bytes taken from the current block
ReadBlock(l, block, off) ==
    LET block_offset == off % BLOCK_SIZE
    IN IF l.tr + block_offset > BLOCK_SIZE
       THEN [l EXCEPT !.pc = "r_copy", !.blk = block, !.dst = block_offset,
                      !.tw = BLOCK_SIZE - block_offset,
                      !.tr = l.tr - (BLOCK_SIZE - block_offset),
                      !.cp = 0..(BLOCK_SIZE - block_offset - 1)]
       ELSE [l EXCEPT !.pc = "r_copy", !.blk = block, !.dst = block_offset,
                      !.tw = l.tr, !.tr = 0, !.cp = 0..(l.tr - 1)]

\* tfs_read_direct_region, loop head (config.h:1208-1223, 1236)
tfs_read_direct_region(t) ==
    /\ Running
    /\ th[t].pc = "rd_loop"
    /\ LET off == open_file_table[th[t].fh].of_offset
           current_block == direct_read_block(off)
       IN th' = [th EXCEPT ![t] =
                   IF th[t].tr > 0 /\ current_block <= MAX_DIRECT_BLOCKS
                   THEN IF data_block_get(current_block) = NULL
                        THEN [@ EXCEPT !.pc = "rd_done", !.dbytes = -1]
                        ELSE ReadBlock(@, current_block, off)
                   ELSE [@ EXCEPT !.pc = "rd_done", !.dbytes = th[t].bw]]
    /\ UNCHANGED <<fsvars, lockvars, prog, log, segv, ub, oob_ref>>

\* tfs_read_indirect_region, loop head (config.h:1253-1267, 1280)
tfs_read_indirect_region(t) ==
    /\ Running
    /\ th[t].pc = "ri_loop"
    /\ LET off == open_file_table[th[t].fh].of_offset
           current_block == indirect_read_block(off)
       IN th' = [th EXCEPT ![t] =
                   IF th[t].tr > 0
                   THEN IF data_block_get(current_block) = NULL
                        THEN [@ EXCEPT !.pc = "read_unlock", !.ibytes = -1]
                        ELSE ReadBlock(@, current_block, off)
                   ELSE [@ EXCEPT !.pc = "read_unlock", !.ibytes = th[t].bw]]
    /\ UNCHANGED <<fsvars, lockvars, prog, log, segv, ub, oob_ref>>

\* config.h:1225 and 1269: memcpy into the caller's buffer, one byte per
\* step in any order
tfs_read_memcpy(t) ==
    /\ Running
    /\ th[t].pc = "r_copy"
    /\ IF th[t].cp = {}
       THEN th' = [th EXCEPT ![t].pc = "r_adv"]
       ELSE \E j \in th[t].cp :
            th' = [th EXCEPT ![t] = [@ EXCEPT
                      !.cp = th[t].cp \ {j},
                      !.out[th[t].boff + th[t].bw + j + 1] =
                          fs_data[th[t].blk][th[t].dst + j]]]
    /\ UNCHANGED <<fsvars, lockvars, prog, log, segv, ub, oob_ref>>

\* config.h:1227-1231 and 1271-1275: file->of_offset += to_read_block;
\* total_read += to_read_block
tfs_read_advance(t) ==
    /\ Running
    /\ th[t].pc = "r_adv"
    /\ open_file_table' = of_offset_add(open_file_table, th[t].fh, th[t].tw)
    /\ th' = [th EXCEPT ![t] = [@ EXCEPT
                 !.pc = IF th[t].phase = "d" THEN "rd_loop" ELSE "ri_loop",
                 !.bw = th[t].bw + th[t].tw]]
    /\ UNCHANGED <<freeinode_ts, inode_table, free_blocks, fs_data, dir_entry,
                   free_open_file_entries,
                   lockvars, prog, log, segv, ub, oob_ref>>

\* tfs_read_direct_region has returned th[t].dbytes: config.h:356 goes on to
\* unlock; config.h:411-430 goes on to the indirect region unless it failed
tfs_read_direct_done(t) ==
    /\ Running
    /\ th[t].pc = "rd_done"
    /\ th' = [th EXCEPT ![t] =
                 IF th[t].region = "direct" \/ th[t].dbytes = -1
                 THEN [@ EXCEPT !.pc = "read_unlock"]
                 ELSE [@ EXCEPT !.pc = "ri_loop", !.phase = "i",
                                !.tr = th[t].rest, !.boff = th[t].dbytes,
                                !.bw = 0]]
    /\ UNCHANGED <<fsvars, lockvars, prog, log, segv, ub, oob_ref>>

\* the value tfs_read returns (config.h:369-374, 393-398, 413-450)
read_result(l) ==
    CASE l.region = "direct" -> l.dbytes
      [] l.region = "indirect" -> l.ibytes
      [] OTHER -> IF l.dbytes = -1 \/ l.ibytes = -1 THEN -1
                  ELSE l.dbytes + l.ibytes

\* inode_unlock(inode, READ), the first of the two unlocks on every path
tfs_read_unlock(t) ==
    /\ Running
    /\ th[t].pc = "read_unlock"
    /\ inode_rwlock' = inode_unlock_read(inode_rwlock, th[t].inum, t)
    /\ th' = [th EXCEPT ![t].pc = "read_unlock2"]
    /\ UNCHANGED <<fsvars, open_file_mutex, inode_mutex, prog, log, segv, ub, oob_ref>>

\* open_file_unlock(file, MUTEX) after the inode_unlock, then the return
\* value (config.h:365-450)
tfs_read_file_unlock(t) ==
    /\ Running
    /\ th[t].pc = "read_unlock2"
    /\ open_file_mutex' = open_file_unlock(open_file_mutex, th[t].fh)
    /\ th' = [th EXCEPT ![t] = Ret(t, read_result(th[t]))]
    /\ UNCHANGED <<fsvars, inode_mutex, inode_rwlock, prog, log, segv, ub, oob_ref>>

ReadSteps(t) ==
    \/ tfs_read_begin(t) \/ tfs_read_lock(t) \/ tfs_read_inode_lock(t)
    \/ tfs_read_case(t)
    \/ tfs_read_direct_enter(t) \/ tfs_read_direct_region(t)
    \/ tfs_read_indirect_region(t) \/ tfs_read_memcpy(t)
    \/ tfs_read_advance(t) \/ tfs_read_direct_done(t) \/ tfs_read_unlock(t)
    \/ tfs_read_file_unlock(t)

(***************************************************************************)
(* Paths the client programs use.  The name of PathLong has MAX_FILE_NAME  *)
(* characters, one more than a directory entry keeps.                      *)
(***************************************************************************)
PathA == <<"/", "a">>
PathB == <<"/", "b">>
PathLong == <<"/", "a", "b", "c">>

(***************************************************************************)
(* SpecOpen: the handle-uniqueness test (part_000:59-92), generalised:     *)
(* main creates the file (or not), keeps or closes its handles, then the   *)
(* workers call tfs_open once each, concurrently; nobody closes meanwhile. *)
(***************************************************************************)
OpenMainProgs ==
    { <<JoinC>>,
      <<OpenC(PathA, {TFS_O_CREAT}), CloseC(<<0, 1>>), JoinC>>,
      <<OpenC(PathA, {TFS_O_CREAT}), JoinC>>,
      <<OpenC(PathA, {TFS_O_CREAT}), OpenC(PathA, {}), JoinC>> }

OpenWorkerCalls ==
    { OpenC(PathA, {}), OpenC(PathA, {TFS_O_CREAT}),
      OpenC(PathA, {TFS_O_TRUNC, TFS_O_APPEND}),
      OpenC(PathB, {}), OpenC(PathB, {TFS_O_CREAT}) }

InitOpen ==
    /\ InitFS
    /\ \E m \in OpenMainProgs, c \in [Workers -> OpenWorkerCalls] :
          prog = [t \in Threads |-> IF t = 0 THEN m ELSE <<c[t]>>]

NextOpen ==
    \/ \E t \in Threads : Call(t)
    \/ Join
    \/ \E t \in Threads : Return(t)
    \/ \E t \in Threads : tfs_open_lookup(t)
    \/ \E t \in Threads : tfs_open_lock(t)
    \/ \E t \in Threads : tfs_open_trunc(t)
    \/ \E t \in Threads : tfs_open_offset(t)
    \/ \E t \in Threads : inode_create(t)
    \/ \E t \in Threads : add_dir_entry(t)
    \/ \E t \in Threads : inode_delete(t)
    \/ \E t \in Threads : add_to_open_file_table(t)
    \/ \E t \in Threads : tfs_close(t)

SpecOpen == InitOpen /\ [][NextOpen]_vars

\* the calls of thread t that returned a handle which t did not close later
OpenedBy(t) ==
    {j \in 1..Len(log[t]) :
        /\ log[t][j].op = "open"
        /\ log[t][j].ret /= -1
        /\ ~\E c \in (j + 1)..Len(log[t]) :
              /\ log[t][c].op = "close"
              /\ log[t][c].fh = log[t][j].ret
              /\ log[t][c].ret = 0}

\* C1: handles returned by tfs_open calls that are not -1 and were not
\* closed in between are pairwise distinct, under every interleaving of
\* the concurrent opens.
C1_HandlesDistinct ==
    \A t1 \in Threads, t2 \in Threads :
        \A j1 \in OpenedBy(t1), j2 \in OpenedBy(t2) :
            (<<t1, j1>> /= <<t2, j2>>) => (log[t1][j1].ret /= log[t2][j2].ret)

\* every worker got a handle for PathA, which main had created
C1_Witness ==
    /\ Len(log[0]) >= 1 /\ log[0][1].ret /= -1
    /\ \A w \in Workers :
          /\ Len(log[w]) >= 1
          /\ log[w][1].name = PathA
          /\ log[w][1].flags = {}
          /\ log[w][1].ret /= -1


(***************************************************************************)
(* Sequential clients: the main thread alone runs one program.  A program  *)
(* is an optional prologue that creates other files first, followed by one *)
(* of the scenarios below; o is the number of calls in front of it.        *)
(***************************************************************************)
PathC == <<"/", "c">>

\* no other file, one other file holding one byte, two other files
Prologues ==
    { <<>>,
      <<OpenC(PathB, {TFS_O_CREAT}), WriteC(<<0, 1>>, 1, 100, 0),
        CloseC(<<0, 1>>)>>,
      <<OpenC(PathB, {TFS_O_CREAT}), CloseC(<<0, 1>>),
        OpenC(PathC, {TFS_O_CREAT}), CloseC(<<0, 3>>)>> }

\* create, write n bytes, close, open, read n bytes, close
RoundTrip(p, n, o) ==
    <<OpenC(p, {TFS_O_CREAT}), WriteC(<<0, o + 1>>, n, 1, 1),
      CloseC(<<0, o + 1>>), OpenC(p, {}), ReadC(<<0, o + 4>>, n),
      CloseC(<<0, o + 4>>)>>

\* open(p, CREATE); close; open(p, 0); close
OpenClose(p, o) ==
    <<OpenC(p, {TFS_O_CREAT}), CloseC(<<0, o + 1>>),
      OpenC(p, {}), CloseC(<<0, o + 3>>)>>

\* three writes through one handle of a new file
Fill(n1, n2, n3, o) ==
    <<OpenC(PathA, {TFS_O_CREAT}), WriteC(<<0, o + 1>>, n1, 1, 1),
      WriteC(<<0, o + 1>>, n2, 21, 1), WriteC(<<0, o + 1>>, n3, 41, 1)>>

\* write n bytes, reopen with TRUNC in the flags, read
Truncate(n, flags, len, o) ==
    <<OpenC(PathA, {TFS_O_CREAT}), WriteC(<<0, o + 1>>, n, 1, 1),
      CloseC(<<0, o + 1>>), OpenC(PathA, flags), ReadC(<<0, o + 4>>, len)>>

\* a file of n bytes, a second file that takes the blocks that are left,
\* one more write to the first file, then the first file is reopened with
\* TRUNC in the flags and read
TruncateFull(n, flags, len) ==
    <<OpenC(PathA, {TFS_O_CREAT}), WriteC(<<0, 1>>, n, 1, 1),
      OpenC(PathB, {TFS_O_CREAT}), WriteC(<<0, 3>>, MAX_BYTES, 21, 1),
      WriteC(<<0, 3>>, 1, 41, 1), WriteC(<<0, 1>>, 1, 51, 1),
      OpenC(PathA, flags), ReadC(<<0, 7>>, len)>>

\* a file of one byte, a second file that takes the blocks that are left,
\* then the first file is truncated (which frees its one block) and written
\* with n bytes while one block is free
FailMidway(n) ==
    <<OpenC(PathA, {TFS_O_CREAT}), WriteC(<<0, 1>>, 1, 1, 1),
      OpenC(PathB, {TFS_O_CREAT}), WriteC(<<0, 3>>, MAX_BYTES, 21, 1),
      WriteC(<<0, 3>>, 1, 41, 1), OpenC(PathA, {TFS_O_TRUNC}),
      WriteC(<<0, 6>>, n, 51, 1)>>

\* write a bytes, close, reopen with APPEND, write b bytes, close, open, read
AppendTwice(a, b, o) ==
    <<OpenC(PathA, {TFS_O_CREAT}), WriteC(<<0, o + 1>>, a, 1, 1),
      CloseC(<<0, o + 1>>), OpenC(PathA, {TFS_O_APPEND}),
      WriteC(<<0, o + 4>>, b, 1 + a, 1), CloseC(<<0, o + 4>>),
      OpenC(PathA, {}), ReadC(<<0, o + 7>>, a + b)>>

\* two handles of one file: write n bytes through the first, read m through
\* the second, write one byte through the second, read one through the first
TwoHandles(n, m, o) ==
    <<OpenC(PathA, {TFS_O_CREAT}), OpenC(PathA, {}),
      WriteC(<<0, o + 1>>, n, 1, 1), ReadC(<<0, o + 2>>, m),
      WriteC(<<0, o + 2>>, 1, 21, 1), ReadC(<<0, o + 1>>, 1)>>

\* MAX_OPEN_FILES opens of one file, then opens of a second path while every
\* entry is taken, and one more after a close
Exhaust(flags, o) ==
    [j \in 1..MAX_OPEN_FILES |-> OpenC(PathA, {TFS_O_CREAT})]
    \o <<OpenC(PathB, flags), OpenC(PathB, {}),
         CloseC(<<0, o + 1>>), OpenC(PathB, {})>>

\* close a handle twice, then close handles outside the table
CloseTwice(o) ==
    <<OpenC(PathA, {TFS_O_CREAT}), CloseC(<<0, o + 1>>), CloseC(<<0, o + 1>>),
      CloseC(<<-1, MAX_OPEN_FILES>>), CloseC(<<-1, -1>>)>>

\* writes and reads of no bytes, and through handles outside the table
BadArgs(o) ==
    <<OpenC(PathA, {TFS_O_CREAT}), WriteC(<<0, o + 1>>, 1, 1, 1),
      WriteC(<<0, o + 1>>, 0, 1, 1), ReadC(<<0, o + 1>>, 0),
      WriteC(<<-1, MAX_OPEN_FILES>>, 1, 1, 1), ReadC(<<-1, MAX_OPEN_FILES>>, 1),
      WriteC(<<-1, -1>>, 1, 1, 1), ReadC(<<-1, -1>>, 1)>>

\* a write and a read through a handle that was closed
ClosedHandle(n, o) ==
    <<OpenC(PathA, {TFS_O_CREAT}), WriteC(<<0, o + 1>>, 1, 1, 1),
      CloseC(<<0, o + 1>>), WriteC(<<0, o + 1>>, n, 21, 1),
      ReadC(<<0, o + 1>>, n)>>

\* open(p, CREATE); close; open(p, flags)
CreateTwice(p, flags, o) ==
    <<OpenC(p, {TFS_O_CREAT}), CloseC(<<0, o + 1>>), OpenC(p, flags)>>

\* two files created, one written and both left open, then tfs_init again
\* and opens of the two paths
ReInit(n, o) ==
    <<OpenC(PathA, {TFS_O_CREAT}), WriteC(<<0, o + 1>>, n, 1, 1),
      OpenC(PathB, {TFS_O_CREAT}), InitC, OpenC(PathA, {}), OpenC(PathB, {}),
      OpenC(PathB, {TFS_O_CREAT}), OpenC(PathB, {})>>

\* write n bytes through one handle, truncate the file through a second
\* open, then read through the first handle, whose offset is still n
StaleOffset(n, len, o) ==
    <<OpenC(PathA, {TFS_O_CREAT}), WriteC(<<0, o + 1>>, n, 1, 1),
      OpenC(PathA, {TFS_O_TRUNC}), ReadC(<<0, o + 1>>, len)>>

TruncFlags == { {TFS_O_TRUNC}, {TFS_O_TRUNC, TFS_O_CREAT} }

Scenarios(o) ==
    { RoundTrip(PathA, n, o) : n \in 1..MAX_BYTES }
    \cup { OpenClose(p, o) : p \in {PathA, PathLong} }
    \cup { Fill(n1, n2, n3, o) : n1 \in {BLOCK_SIZE + 1, MAX_BYTES, MAX_BYTES + 1},
                                 n2 \in {1, BLOCK_SIZE}, n3 \in {1} }
    \cup { Truncate(n, f, len, o) : n \in {1, MAX_BYTES}, f \in TruncFlags,
                                    len \in {1, BLOCK_SIZE + 1} }
    \cup { AppendTwice(a, b, o) : a \in 1..(BLOCK_SIZE + 1), b \in 1..(BLOCK_SIZE + 1) }
    \cup { TwoHandles(n, m, o) : n \in {BLOCK_SIZE, MAX_BYTES_DIRECT_DATA + 1},
                                 m \in {1, BLOCK_SIZE} }
    \cup { Exhaust(f, o) : f \in { {}, {TFS_O_CREAT} } }
    \cup { StaleOffset(n, len, o) : n \in {1, BLOCK_SIZE + 1}, len \in {1, BLOCK_SIZE} }
    \cup { CloseTwice(o) }
    \cup { ClosedHandle(n, o) : n \in {1, BLOCK_SIZE} }
    \cup { BadArgs(o) }
    \cup { ReInit(n, o) : n \in {1, BLOCK_SIZE + 1} }
    \cup { CreateTwice(p, f, o) : p \in {PathA, PathLong},
                                  f \in { {TFS_O_CREAT}, {TFS_O_CREAT, TFS_O_APPEND} } }

SeqProgs ==
    UNION { { pre \o sc : sc \in Scenarios(Len(pre)) } : pre \in Prologues }
    \cup { TruncateFull(n, f, 1) : n \in {BLOCK_SIZE}, f \in TruncFlags }
    \cup { FailMidway(n) : n \in {BLOCK_SIZE, BLOCK_SIZE + 1} }

Init ==
    /\ InitFS
    /\ \E m \in SeqProgs :
          prog = [t \in Threads |-> IF t = 0 THEN m ELSE <<>>]

Next ==
    \/ \E t \in Threads : Call(t)
    \/ \E t \in Threads : Return(t)
    \/ \E t \in Threads : tfs_init(t)
    \/ \E t \in Threads : tfs_open_lookup(t)
    \/ \E t \in Threads : tfs_open_lock(t)
    \/ \E t \in Threads : tfs_open_trunc(t)
    \/ \E t \in Threads : tfs_open_free(t)
    \/ \E t \in Threads : tfs_open_zero(t)
    \/ \E t \in Threads : tfs_open_offset(t)
    \/ \E t \in Threads : inode_create(t)
    \/ \E t \in Threads : add_dir_entry(t)
    \/ \E t \in Threads : inode_delete(t)
    \/ \E t \in Threads : add_to_open_file_table(t)
    \/ \E t \in Threads : tfs_close(t)
    \/ \E t \in Threads : tfs_write_begin(t)
    \/ \E t \in Threads : tfs_write_lock(t)
    \/ \E t \in Threads : tfs_write_inode_lock(t)
    \/ \E t \in Threads : tfs_write_case(t)
    \/ \E t \in Threads : tfs_write_case2(t)
    \/ \E t \in Threads : tfs_write_straddle(t)
    \/ \E t \in Threads : tfs_write_direct_region(t)
    \/ \E t \in Threads : data_block_alloc(t)
    \/ \E t \in Threads : direct_block_insert_store(t)
    \/ \E t \in Threads : direct_block_insert_get(t)
    \/ \E t \in Threads : direct_block_insert_chk(t)
    \/ \E t \in Threads : direct_block_insert_memset(t)
    \/ \E t \in Threads : direct_block_insert_link(t)
    \/ \E t \in Threads : tfs_write_block(t)
    \/ \E t \in Threads : tfs_write_memcpy(t)
    \/ \E t \in Threads : tfs_write_advance(t)
    \/ \E t \in Threads : tfs_write_size(t)
    \/ \E t \in Threads : tfs_write_direct_done(t)
    \/ \E t \in Threads : tfs_write_handle_check(t)
    \/ \E t \in Threads : tfs_handle_indirect_block(t)
    \/ \E t \in Threads : tfs_handle_indirect_memset(t)
    \/ \E t \in Threads : tfs_write_straddle_chk(t)
    \/ \E t \in Threads : tfs_write_indirect_region(t)
    \/ \E t \in Threads : tfs_write_indirect_chk(t)
    \/ \E t \in Threads : indirect_block_insert_store(t)
    \/ \E t \in Threads : indirect_block_insert_memset(t)
    \/ \E t \in Threads : indirect_block_insert_link(t)
    \/ \E t \in Threads : tfs_write_indirect_done(t)
    \/ \E t \in Threads : tfs_write_unlock(t)
    \/ \E t \in Threads : tfs_write_file_unlock(t)
    \/ \E t \in Threads : tfs_read_begin(t)
    \/ \E t \in Threads : tfs_read_lock(t)
    \/ \E t \in Threads : tfs_read_inode_lock(t)
    \/ \E t \in Threads : tfs_read_case(t)
    \/ \E t \in Threads : tfs_read_direct_enter(t)
    \/ \E t \in Threads : tfs_read_direct_region(t)
    \/ \E t \in Threads : tfs_read_indirect_region(t)
    \/ \E t \in Threads : tfs_read_memcpy(t)
    \/ \E t \in Threads : tfs_read_advance(t)
    \/ \E t \in Threads : tfs_read_direct_done(t)
    \/ \E t \in Threads : tfs_read_unlock(t)
    \/ \E t \in Threads : tfs_read_file_unlock(t)

Spec == Init /\ [][Next]_vars

(***************************************************************************)
(* The calls the main thread has completed, in program order.              *)
(***************************************************************************)
ML == log[0]

\* entries k .. k+m of the main thread's history exist
Has(k, m) == k >= 1 /\ k + m <= Len(ML)

\* entry k is a successful open(p, CREATE) of a file that did not exist
CreatedAt(k) ==
    /\ ML[k].op = "open" /\ ML[k].flags = {TFS_O_CREAT}
    /\ ML[k].pre.inum = -1 /\ ML[k].ret /= -1

\* entry k is a write through the handle of entry h that returned its count
WroteAll(k, h) ==
    /\ ML[k].op = "write" /\ ML[k].fh = ML[h].ret /\ ML[k].ret = ML[k].n

\* entry k opens the path of entry h with the given flags
Reopens(k, h, flags) ==
    ML[k].op = "open" /\ ML[k].name = ML[h].name /\ ML[k].flags = flags

\* entry k is a call of op through the handle entry h returned
Through(k, op, h) == ML[k].op = op /\ ML[k].fh = ML[h].ret

\* the first n bytes of the buffer write entry k passed
Written(k, n) == [j \in 1..n |-> BufByte(ML[k].base, ML[k].stride, j - 1)]

\* C2: single-threaded, for every newly created file and every n in
\* 1..MAX_BYTES: after create, a write of n bytes that returns n, close and a
\* fresh open with no flags, read(h2, out, n) returns n and out holds exactly
\* the bytes written.
C2_RoundTrip ==
    \A k \in 1..Len(ML) :
        ( /\ Has(k, 4) /\ CreatedAt(k)
          /\ WroteAll(k + 1, k) /\ ML[k + 1].n \in 1..MAX_BYTES
          /\ Through(k + 2, "close", k)
          /\ Reopens(k + 3, k, {})
          /\ Through(k + 4, "read", k + 3) /\ ML[k + 4].n = ML[k + 1].n )
        => /\ ML[k + 4].ret = ML[k + 1].n
           /\ ML[k + 4].out = Written(k + 1, ML[k + 1].n)

\* C7: for every valid path p, once the first open of open(p, CREATE);
\* close; open(p, 0); close has returned a handle, the close, the second
\* open and the second close succeed too.
C7_OpenCloseTwice ==
    \A k \in 1..Len(ML) :
        ( /\ Has(k, 3)
          /\ ML[k].op = "open" /\ ML[k].flags = {TFS_O_CREAT}
          /\ valid_pathname(ML[k].name) /\ ML[k].ret /= -1
          /\ Through(k + 1, "close", k)
          /\ Reopens(k + 2, k, {})
          /\ Through(k + 3, "close", k + 2) )
        => /\ ML[k + 1].ret /= -1
           /\ ML[k + 2].ret /= -1
           /\ ML[k + 3].ret /= -1

\* C8: single-threaded, a write of to_write > 0 bytes to a file of size s
\* that does not fail returns min(to_write, MAX_BYTES - s) and the size grows
\* by exactly that; a write to a file that holds MAX_BYTES bytes returns 0
\* and not -1.
C8_WriteClamp ==
    \A k \in 1..Len(ML) :
        ( /\ ML[k].op = "write" /\ ML[k].n > 0
          /\ ML[k].pre.inum /= -1 /\ ML[k].pre.size <= MAX_BYTES )
        => /\ ML[k].pre.size = MAX_BYTES => ML[k].ret = 0
           /\ ML[k].ret /= -1 =>
                /\ ML[k].ret = Min(ML[k].n, MAX_BYTES - ML[k].pre.size)
                /\ ML[k].post.size = ML[k].pre.size + ML[k].ret

\* C9: an open with TRUNC in its flags of a file that exists leaves the
\* file's size 0, and a read of len > 0 through the returned handle that
\* follows returns 0.
C9_TruncEmpties ==
    \A k \in 1..Len(ML) :
        ( /\ ML[k].op = "open" /\ TFS_O_TRUNC \in ML[k].flags
          /\ ML[k].pre.inum /= -1 )
        => /\ ML[k].node.size = 0
           /\ ( /\ Has(k, 1) /\ Through(k + 1, "read", k)
                /\ ML[k + 1].n > 0 ) => ML[k + 1].ret = 0

\* C10: an open of an existing file puts the new handle's offset at the
\* file's size when APPEND is in the flags and at 0 otherwise; and after
\* create, write a bytes, close, open with APPEND, write b bytes, close, a
\* read of a + b bytes from a fresh open returns the a bytes followed by the
\* b bytes.
C10_Append ==
    \A k \in 1..Len(ML) :
        /\ ( /\ ML[k].op = "open" /\ ML[k].pre.inum /= -1 /\ ML[k].ret /= -1
             /\ TFS_O_TRUNC \notin ML[k].flags )
           => ML[k].post.offset =
                 IF TFS_O_APPEND \in ML[k].flags THEN ML[k].pre.size ELSE 0
        /\ ( /\ Has(k, 7) /\ CreatedAt(k)
             /\ WroteAll(k + 1, k)
             /\ Through(k + 2, "close", k)
             /\ Reopens(k + 3, k, {TFS_O_APPEND})
             /\ WroteAll(k + 4, k + 3)
             /\ Through(k + 5, "close", k + 3)
             /\ Reopens(k + 6, k, {})
             /\ Through(k + 7, "read", k + 6)
             /\ ML[k + 7].n = ML[k + 1].n + ML[k + 4].n )
           => /\ ML[k + 7].ret = ML[k + 1].n + ML[k + 4].n
              /\ ML[k + 7].out =
                    Written(k + 1, ML[k + 1].n) \o Written(k + 4, ML[k + 4].n)

(***************************************************************************)
(* Concurrent writers (part_000:148-203): the main thread opens one new    *)
(* file once per worker, worker w writes BLOCK_SIZE equal bytes through    *)
(* handle number w, and after the join the main thread closes the handles, *)
(* opens the file again and reads its first block.                         *)
(***************************************************************************)
RECURSIVE Sum(_, _)
Sum(f, S) ==
    IF S = {} THEN 0
    ELSE LET x == CHOOSE y \in S : TRUE IN f[x] + Sum(f, S \ {x})

\* the byte worker w fills its buffer with
FillByte(w) == 10 * w

WritersMain ==
    [w \in 1..NThreads |-> OpenC(PathA, {TFS_O_CREAT})]
    \o <<JoinC>>
    \o [w \in 1..NThreads |-> CloseC(<<0, w>>)]
    \o <<OpenC(PathA, {}), ReadC(<<0, 2 * NThreads + 1>>, BLOCK_SIZE)>>

InitWriters ==
    /\ InitFS
    /\ prog = [t \in Threads |->
                 IF t = 0 THEN WritersMain
                 ELSE <<WriteC(<<0, t>>, BLOCK_SIZE, FillByte(t), 0)>>]

\* the writes stay inside the direct region, whose steps are the ones listed
NextWriters ==
    \/ \E t \in Threads : Call(t)
    \/ Join
    \/ \E t \in Threads : Return(t)
    \/ \E t \in Threads : tfs_open_lookup(t)
    \/ \E t \in Threads : tfs_open_lock(t)
    \/ \E t \in Threads : tfs_open_offset(t)
    \/ \E t \in Threads : inode_create(t)
    \/ \E t \in Threads : add_dir_entry(t)
    \/ \E t \in Threads : add_to_open_file_table(t)
    \/ \E t \in Threads : tfs_close(t)
    \/ \E t \in Threads : tfs_write_begin(t)
    \/ \E t \in Threads : tfs_write_lock(t)
    \/ \E t \in Threads : tfs_write_inode_lock(t)
    \/ \E t \in Threads : tfs_write_case(t)
    \/ \E t \in Threads : tfs_write_direct_region(t)
    \/ \E t \in Threads : data_block_alloc(t)
    \/ \E t \in Threads : direct_block_insert_store(t)
    \/ \E t \in Threads : direct_block_insert_get(t)
    \/ \E t \in Threads : direct_block_insert_chk(t)
    \/ \E t \in Threads : direct_block_insert_memset(t)
    \/ \E t \in Threads : direct_block_insert_link(t)
    \/ \E t \in Threads : tfs_write_block(t)
    \/ \E t \in Threads : tfs_write_memcpy(t)
    \/ \E t \in Threads : tfs_write_advance(t)
    \/ \E t \in Threads : tfs_write_size(t)
    \/ \E t \in Threads : tfs_write_direct_done(t)
    \/ \E t \in Threads : tfs_write_unlock(t)
    \/ \E t \in Threads : tfs_write_file_unlock(t)
    \/ \E t \in Threads : tfs_read_begin(t)
    \/ \E t \in Threads : tfs_read_lock(t)
    \/ \E t \in Threads : tfs_read_inode_lock(t)
    \/ \E t \in Threads : tfs_read_case(t)
    \/ \E t \in Threads : tfs_read_direct_enter(t)
    \/ \E t \in Threads : tfs_read_direct_region(t)
    \/ \E t \in Threads : tfs_read_memcpy(t)
    \/ \E t \in Threads : tfs_read_advance(t)
    \/ \E t \in Threads : tfs_read_direct_done(t)
    \/ \E t \in Threads : tfs_read_unlock(t)
    \/ \E t \in Threads : tfs_read_file_unlock(t)

SpecWriters == InitWriters /\ [][NextWriters]_vars

\* every worker's one call has returned
WorkersDone == \A w \in Workers : Len(log[w]) = 1 /\ th[w].pc = "idle"

\* the byte count worker w's call delivered, 0 for a failed call
Counts == [w \in Workers |-> IF log[w][1].ret = -1 THEN 0 ELSE log[w][1].ret]

\* C4: once the concurrent BLOCK_SIZE writes through distinct handles of the
\* new file have all returned, the file's size is the sum of the counts the
\* successful writes returned.
C4_SizeIsSum ==
    WorkersDone =>
        inode_table[tfs_lookup(PathA)].i_size = Sum(Counts, Workers)

\* C5: after the concurrent writes of one byte value each, the read of the
\* file's first block returns BLOCK_SIZE bytes, all equal, that are the bytes
\* of one of the writes.
C5_NoTornBlock ==
    ( /\ Len(ML) = 2 * NThreads + 2
      /\ \A w \in Workers : log[w][1].ret = BLOCK_SIZE )
    => /\ ML[Len(ML)].ret = BLOCK_SIZE
       /\ \E w \in Workers :
             ML[Len(ML)].out = [j \in 1..BLOCK_SIZE |-> FillByte(w)]

(***************************************************************************)
(* One file per thread: every worker creates its own file, writes its own  *)
(* byte to it and closes it; after the join the main thread opens each     *)
(* file and reads it back.  Workers beyond the directory's capacity do     *)
(* nothing.                                                                *)
(***************************************************************************)
Names == <<"a", "b", "c", "d">>
FilePath(w) == <<"/", Names[w]>>

FileWorkers == { w \in Workers : w <= MAX_DIR_ENTRIES }

\* open, read len bytes and close the files of workers w .. NThreads; each
\* file takes three entries of the main thread's history
RECURSIVE ReadBack(_, _)
ReadBack(w, len) ==
    IF w \notin FileWorkers THEN <<>>
    ELSE <<OpenC(FilePath(w), {}), ReadC(<<0, 3 * w - 2>>, len),
           CloseC(<<0, 3 * w - 2>>)>> \o ReadBack(w + 1, len)

InitFiles ==
    /\ InitFS
    /\ \E len \in 1..BLOCK_SIZE :
          prog = [t \in Threads |->
                    IF t = 0 THEN <<JoinC>> \o ReadBack(1, len)
                    ELSE IF t \in FileWorkers
                    THEN <<OpenC(FilePath(t), {TFS_O_CREAT}),
                           WriteC(<<t, 1>>, len, FillByte(t), 0),
                           CloseC(<<t, 1>>)>>
                    ELSE <<>>]

\* every file is one block long: the steps of the direct region only
NextFiles ==
    \/ \E t \in Threads : Call(t)
    \/ Join
    \/ \E t \in Threads : Return(t)
    \/ \E t \in Threads : tfs_open_lookup(t)
    \/ \E t \in Threads : tfs_open_lock(t)
    \/ \E t \in Threads : tfs_open_offset(t)
    \/ \E t \in Threads : inode_create(t)
    \/ \E t \in Threads : add_dir_entry(t)
    \/ \E t \in Threads : add_to_open_file_table(t)
    \/ \E t \in Threads : tfs_close(t)
    \/ \E t \in Threads : tfs_write_begin(t)
    \/ \E t \in Threads : tfs_write_lock(t)
    \/ \E t \in Threads : tfs_write_inode_lock(t)
    \/ \E t \in Threads : tfs_write_case(t)
    \/ \E t \in Threads : tfs_write_direct_region(t)
    \/ \E t \in Threads : data_block_alloc(t)
    \/ \E t \in Threads : direct_block_insert_store(t)
    \/ \E t \in Threads : direct_block_insert_get(t)
    \/ \E t \in Threads : direct_block_insert_chk(t)
    \/ \E t \in Threads : direct_block_insert_memset(t)
    \/ \E t \in Threads : direct_block_insert_link(t)
    \/ \E t \in Threads : tfs_write_block(t)
    \/ \E t \in Threads : tfs_write_memcpy(t)
    \/ \E t \in Threads : tfs_write_advance(t)
    \/ \E t \in Threads : tfs_write_size(t)
    \/ \E t \in Threads : tfs_write_direct_done(t)
    \/ \E t \in Threads : tfs_write_unlock(t)
    \/ \E t \in Threads : tfs_write_file_unlock(t)
    \/ \E t \in Threads : tfs_read_begin(t)
    \/ \E t \in Threads : tfs_read_lock(t)
    \/ \E t \in Threads : tfs_read_inode_lock(t)
    \/ \E t \in Threads : tfs_read_case(t)
    \/ \E t \in Threads : tfs_read_direct_enter(t)
    \/ \E t \in Threads : tfs_read_direct_region(t)
    \/ \E t \in Threads : tfs_read_memcpy(t)
    \/ \E t \in Threads : tfs_read_advance(t)
    \/ \E t \in Threads : tfs_read_direct_done(t)
    \/ \E t \in Threads : tfs_read_unlock(t)
    \/ \E t \in Threads : tfs_read_file_unlock(t)

SpecFiles == InitFiles /\ [][NextFiles]_vars

\* C3: every create, write and close of the workers succeeds, and the main
\* thread's later read of worker w's file returns exactly the bytes w wrote.
C3_FilesIsolated ==
    \A w \in FileWorkers :
        /\ \A k \in 1..Len(log[w]) :
              /\ log[w][k].ret /= -1
              /\ log[w][k].op = "write" => log[w][k].ret = log[w][k].n
        /\ Len(ML) >= 3 * w - 1 =>
              /\ ML[3 * w - 2].ret /= -1
              /\ ML[3 * w - 1].ret = log[w][2].n
              /\ ML[3 * w - 1].out =
                    [j \in 1..log[w][2].n |-> FillByte(w)]

(***************************************************************************)
(* Concurrent readers (part_000:247-290): the main thread creates a file,  *)
(* writes it, closes it, opens it again and may read from it first; then   *)
(* every worker reads through that one handle.                             *)
(***************************************************************************)
\* the handle the readers share is the one the main thread's fourth call
\* returned
ReadersMain(size, first) ==
    <<OpenC(PathA, {TFS_O_CREAT}), WriteC(<<0, 1>>, size, 1, 1),
      CloseC(<<0, 1>>), OpenC(PathA, {})>>
    \o (IF first = 0 THEN <<>> ELSE <<ReadC(<<0, 4>>, first)>>)
    \o <<JoinC>>

ReadLens == {BLOCK_SIZE + 1, MAX_BYTES + 1}

InitReaders ==
    /\ InitFS
    /\ \E size \in {BLOCK_SIZE + 1, MAX_BYTES_DIRECT_DATA + 1, MAX_BYTES},
          first \in {0, 1}, len \in [Workers -> ReadLens] :
          prog = [t \in Threads |->
                    IF t = 0 THEN ReadersMain(size, first)
                    ELSE <<ReadC(<<0, 4>>, len[t])>>]

NextReaders ==
    \/ \E t \in Threads : Call(t)
    \/ Join
    \/ \E t \in Threads : Return(t)
    \/ \E t \in Threads : tfs_open_lookup(t)
    \/ \E t \in Threads : tfs_open_lock(t)
    \/ \E t \in Threads : tfs_open_offset(t)
    \/ \E t \in Threads : inode_create(t)
    \/ \E t \in Threads : add_dir_entry(t)
    \/ \E t \in Threads : add_to_open_file_table(t)
    \/ \E t \in Threads : tfs_close(t)
    \/ \E t \in Threads : tfs_write_begin(t)
    \/ \E t \in Threads : tfs_write_lock(t)
    \/ \E t \in Threads : tfs_write_inode_lock(t)
    \/ \E t \in Threads : tfs_write_case(t)
    \/ \E t \in Threads : tfs_write_case2(t)
    \/ \E t \in Threads : tfs_write_straddle(t)
    \/ \E t \in Threads : tfs_write_direct_region(t)
    \/ \E t \in Threads : data_block_alloc(t)
    \/ \E t \in Threads : direct_block_insert_store(t)
    \/ \E t \in Threads : direct_block_insert_get(t)
    \/ \E t \in Threads : direct_block_insert_chk(t)
    \/ \E t \in Threads : direct_block_insert_memset(t)
    \/ \E t \in Threads : direct_block_insert_link(t)
    \/ \E t \in Threads : tfs_write_block(t)
    \/ \E t \in Threads : tfs_write_memcpy(t)
    \/ \E t \in Threads : tfs_write_advance(t)
    \/ \E t \in Threads : tfs_write_size(t)
    \/ \E t \in Threads : tfs_write_direct_done(t)
    \/ \E t \in Threads : tfs_write_handle_check(t)
    \/ \E t \in Threads : tfs_handle_indirect_block(t)
    \/ \E t \in Threads : tfs_handle_indirect_memset(t)
    \/ \E t \in Threads : tfs_write_straddle_chk(t)
    \/ \E t \in Threads : tfs_write_indirect_region(t)
    \/ \E t \in Threads : tfs_write_indirect_chk(t)
    \/ \E t \in Threads : indirect_block_insert_store(t)
    \/ \E t \in Threads : indirect_block_insert_memset(t)
    \/ \E t \in Threads : indirect_block_insert_link(t)
    \/ \E t \in Threads : tfs_write_indirect_done(t)
    \/ \E t \in Threads : tfs_write_unlock(t)
    \/ \E t \in Threads : tfs_write_file_unlock(t)
    \/ \E t \in Threads : tfs_read_begin(t)
    \/ \E t \in Threads : tfs_read_lock(t)
    \/ \E t \in Threads : tfs_read_inode_lock(t)
    \/ \E t \in Threads : tfs_read_case(t)
    \/ \E t \in Threads : tfs_read_direct_enter(t)
    \/ \E t \in Threads : tfs_read_direct_region(t)
    \/ \E t \in Threads : tfs_read_indirect_region(t)
    \/ \E t \in Threads : tfs_read_memcpy(t)
    \/ \E t \in Threads : tfs_read_advance(t)
    \/ \E t \in Threads : tfs_read_direct_done(t)
    \/ \E t \in Threads : tfs_read_unlock(t)
    \/ \E t \in Threads : tfs_read_file_unlock(t)

SpecReaders == InitReaders /\ [][NextReaders]_vars

\* the file positions worker w's read delivered
Delivered(w) == { log[w][1].at + j : j \in 0..(log[w][1].ret - 1) }

\* C6: concurrent reads through one handle of a file nobody writes: once
\* they have all returned, the counts add up to min(sum of n_i, size -
\* initial offset), no file position went to two readers, every reader got
\* the file's bytes of its positions, and the handle's offset is the initial
\* offset plus the sum.
C6_ReadsSerialise ==
    WorkersDone =>
        LET start == ML[Len(ML)].post
            lens == [w \in Workers |-> log[w][1].n]
            rets == [w \in Workers |-> log[w][1].ret]
        IN /\ \A w \in Workers : rets[w] >= 0
           /\ Sum(rets, Workers) =
                 Min(Sum(lens, Workers), start.size - start.offset)
           /\ \A v, w \in Workers :
                 v /= w => Delivered(v) \cap Delivered(w) = {}
           /\ \A w \in Workers : \A j \in 1..rets[w] :
                 log[w][1].out[j] =
                    BufByte(ML[2].base, ML[2].stride, log[w][1].at + j - 1)
           /\ open_file_table[ML[4].ret].of_offset =
                 start.offset + Sum(rets, Workers)

\* two readers each got at least one byte, and one of them got fewer bytes
\* than it asked for
C6_Witness ==
    /\ WorkersDone
    /\ \A w \in Workers : log[w][1].ret > 0
    /\ \E w \in Workers : log[w][1].ret < log[w][1].n
    /\ ML[Len(ML)].post.offset > 0

\* entry k is a write that starts below the direct/indirect boundary and
\* ends beyond it, within MAX_BYTES
Straddles(k) ==
    /\ ML[k].op = "write" /\ ML[k].pre.inum /= -1
    /\ ML[k].pre.size < MAX_BYTES_DIRECT_DATA
    /\ ML[k].pre.size + ML[k].n > MAX_BYTES_DIRECT_DATA
    /\ ML[k].pre.size + ML[k].n <= MAX_BYTES

\* C11: a single write that starts with size < MAX_BYTES_DIRECT_DATA and
\* ends beyond it returns the sum of its direct and indirect parts, that is
\* all of its bytes, and a read of the whole file from offset 0 returns the
\* bytes in the order they were written.
C11_Straddle ==
    \A k \in 1..Len(ML) :
        /\ Straddles(k) =>
              /\ ML[k].ret = ML[k].n
              /\ ML[k].post.size = ML[k].pre.size + ML[k].n
        /\ ( /\ Has(k, 4) /\ CreatedAt(k)
             /\ Through(k + 1, "write", k) /\ Straddles(k + 1)
             /\ Through(k + 2, "close", k)
             /\ Reopens(k + 3, k, {})
             /\ Through(k + 4, "read", k + 3) /\ ML[k + 4].n = ML[k + 1].n )
           => /\ ML[k + 4].ret = ML[k + 1].n
              /\ ML[k + 4].out = Written(k + 1, ML[k + 1].n)

\* the main thread is between two calls and its last completed call is ML[k]
JustReturned(k) == th[0].pc = "idle" /\ Len(ML) = k

\* C12: every data block the write path allocates is zeroed over all
\* BLOCK_SIZE bytes before the copy, so the bytes of the file's last block
\* that no write has covered are 0 when the write returns (the tail of the
\* second block after a write of BLOCK_SIZE + BLOCK_SIZE \div 2 bytes).
C12_Zeroed ==
    \A k \in 1..Len(ML) :
        ( /\ JustReturned(k)
          /\ ML[k].op = "write" /\ ML[k].ret > 0
          /\ ML[k].post.size % BLOCK_SIZE /= 0 )
        => LET b == inode_table[ML[k].post.inum].i_data_block
           IN  /\ valid_block_number(b)
               /\ \A j \in (ML[k].post.size % BLOCK_SIZE)..(BLOCK_SIZE - 1) :
                      fs_data[b][j] = 0

\* no thread is inside a call, hence none inside a critical section
Quiescent == \A t \in Threads : th[t].pc = "idle"

\* the int at int-index idx of pool block b, -1 when every byte is 0xFF
RefAt(b, idx) ==
    LET raw == Sum([j \in 0..(INT_SIZE - 1) |->
                       fs_data[b][idx * INT_SIZE + j] * (256 ^ j)],
                   0..(INT_SIZE - 1))
    IN IF raw = (256 ^ INT_SIZE) - 1 THEN -1 ELSE raw

IsTakenBlock(b) == valid_block_number(b) /\ free_blocks[b] = TAKEN

FileInodes ==
    { i \in Inumbers : freeinode_ts[i] = TAKEN /\ inode_table[i].i_node_type = T_FILE }

\* C13: in every state in which no thread is inside a critical section,
\* every block index stored in a direct slot of a Taken inode, in its
\* indirect slot, or inside its indirect block is Taken in the data-block
\* bitmap, also after a truncating open.
C13_ReferencedBlocksTaken ==
    Quiescent =>
        \A i \in FileInodes :
            /\ \A s \in 0..(I_BLOCK_SIZE - 1) :
                   inode_table[i].i_block[s] /= -1
                       => IsTakenBlock(inode_table[i].i_block[s])
            /\ IsTakenBlock(inode_table[i].i_block[MAX_DIRECT_BLOCKS])
                   => \A idx \in 0..((BLOCK_SIZE \div INT_SIZE) - 1) :
                          RefAt(inode_table[i].i_block[MAX_DIRECT_BLOCKS], idx) /= -1
                              => IsTakenBlock(RefAt(inode_table[i].i_block[MAX_DIRECT_BLOCKS], idx))

\* C14: for every file inode outside a critical section, i_size is at most
\* MAX_BYTES, and whenever i_size is at most MAX_BYTES_DIRECT_DATA the
\* indirect slot i_block[MAX_DIRECT_BLOCKS] is unassigned, after any
\* sequence of writes, failed writes and truncating opens.
C14_SizeAndIndirectSlot ==
    Quiescent =>
        \A i \in FileInodes :
            /\ inode_table[i].i_size <= MAX_BYTES
            /\ inode_table[i].i_size <= MAX_BYTES_DIRECT_DATA
                   => inode_table[i].i_block[MAX_DIRECT_BLOCKS] = -1

\* C15: the names in the root directory are unique in every reachable
\* state, also when several threads concurrently call open(p, CREATE) with
\* the same absent p.
C15_NamesUnique ==
    \A e1, e2 \in 0..(MAX_DIR_ENTRIES - 1) :
        ( /\ e1 /= e2
          /\ dir_entry[e1].d_inumber /= -1
          /\ dir_entry[e2].d_inumber /= -1 )
        => dir_entry[e1].d_name /= dir_entry[e2].d_name

\* no mutex of the model is held and no inode is read- or write-locked
NoLockHeld ==
    /\ \A h \in Handles : open_file_mutex[h] = -1
    /\ \A i \in Inumbers : inode_mutex[i] = -1 /\ inode_rwlock[i] = {}

OpenReferenced(i) ==
    \E h \in Handles :
        free_open_file_entries[h] = TAKEN /\ open_file_table[h].of_inumber = i

RootReachable(i) ==
    \/ i = ROOT_DIR_INUM
    \/ \E e \in 0..(MAX_DIR_ENTRIES - 1) : dir_entry[e].d_inumber = i

\* thread t has created an inode which it has neither entered into the root
\* directory nor deleted yet (tfs_open between config.h:127 and 133-134)
Creating(t) == th[t].pc \in {"add_dir_entry", "inode_delete"}

\* C16 as stated: in every state in which no thread is inside a critical
\* section, an inode slot is Taken iff some Taken open-file entry references
\* it or it is reachable from the root directory block.
C16_TakenIffReferenced ==
    NoLockHeld =>
        \A i \in Inumbers :
            freeinode_ts[i] = TAKEN <=> (OpenReferenced(i) \/ RootReachable(i))

\* C16 amended: the equivalence holds in every state in which no thread is
\* inside a critical section and no thread is between the inode_create and
\* the add_dir_entry or inode_delete of an open with CREATE.
C16_TakenIffReferencedOutsideCreate ==
    (NoLockHeld /\ \A t \in Threads : ~Creating(t)) =>
        \A i \in Inumbers :
            freeinode_ts[i] = TAKEN <=> (OpenReferenced(i) \/ RootReachable(i))

\* a create was rolled back by a thread while another file is open
C16_Witness ==
    /\ Quiescent
    /\ \E t \in Threads : \E k \in 1..Len(log[t]) :
          /\ log[t][k].op = "open" /\ TFS_O_CREAT \in log[t][k].flags
          /\ log[t][k].pre.inum = -1 /\ log[t][k].ret = -1
    /\ \E i \in Inumbers : i /= ROOT_DIR_INUM /\ OpenReferenced(i)
    /\ \E i \in Inumbers :
          \* a slot inode_create initialised and inode_delete released
          freeinode_ts[i] = FREE /\ inode_table[i].i_data_block = -1

\* C17: every root directory entry whose inumber is not -1 refers to an
\* inode slot that is Taken and of kind File.
C17_EntriesReferToFiles ==
    \A e \in 0..(MAX_DIR_ENTRIES - 1) :
        dir_entry[e].d_inumber /= -1
            => /\ valid_inumber(dir_entry[e].d_inumber)
               /\ freeinode_ts[dir_entry[e].d_inumber] = TAKEN
               /\ inode_table[dir_entry[e].d_inumber].i_node_type = T_FILE

\* the directory is full of entries made by concurrent creates, and one
\* more create has been rolled back
C17_Witness ==
    /\ \A e \in 0..(MAX_DIR_ENTRIES - 1) : dir_entry[e].d_inumber /= -1
    /\ \E t \in Workers : \E k \in 1..Len(log[t]) :
          /\ log[t][k].op = "open" /\ TFS_O_CREAT \in log[t][k].flags
          /\ log[t][k].ret /= -1
    /\ \E i \in Inumbers :
          freeinode_ts[i] = FREE /\ inode_table[i].i_data_block = -1

\* C18: two open-file entries may reference the same inumber; a step of a
\* read or of a write through one handle changes no other handle's entry,
\* so only that handle's offset moves.
C18_IndependentOffsets ==
    [][ \A t \in Threads :
            (th'[t] /= th[t] /\ th[t].op \in {"read", "write"})
                => \A h \in Handles \ {th[t].fh} :
                       open_file_table'[h] = open_file_table[h] ]_vars

\* two Taken entries of one file; a write through the one and a read through
\* the other have returned bytes, and the two offsets differ
C18_Witness ==
    \E a, b \in Handles :
        /\ a /= b
        /\ free_open_file_entries[a] = TAKEN /\ free_open_file_entries[b] = TAKEN
        /\ open_file_table[a].of_inumber = open_file_table[b].of_inumber
        /\ open_file_table[a].of_offset /= open_file_table[b].of_offset
        /\ \E k \in 1..Len(ML) :
              ML[k].op = "write" /\ ML[k].fh = a /\ ML[k].ret > 0
        /\ \E k \in 1..Len(ML) :
              ML[k].op = "read" /\ ML[k].fh = b /\ ML[k].ret > 0

\* ML[k] is an open with CREATE of a valid absent path, called with a free
\* inode slot and with no empty entry in the root directory
CreateOnFullDir(k) ==
    /\ ML[k].op = "open" /\ TFS_O_CREAT \in ML[k].flags
    /\ valid_pathname(ML[k].name)
    /\ ML[k].pre.inum = -1
    /\ \E i \in Inumbers : ML[k].saved.freeinode_ts[i] = FREE
    /\ \A e \in 0..(MAX_DIR_ENTRIES - 1) : ML[k].saved.dir_entry[e].d_inumber /= -1

\* C19: when open(p, CREATE) on an absent path cannot add the root directory
\* entry because no entry is empty, it returns -1 and deletes the inode it
\* created: the inode bitmap, the data-block bitmap, the directory block and
\* the open-file table equal their values before the call.
C19_CreateRollback ==
    \A k \in 1..Len(ML) :
        CreateOnFullDir(k)
            => /\ ML[k].ret = -1
               /\ \A f \in DOMAIN ML[k].kept : ML[k].kept[f]

\* such an open has returned, and the slot it created and released shows
\* the values inode_create gave it
C19_Witness ==
    /\ \E k \in 1..Len(ML) : CreateOnFullDir(k) /\ ML[k].ret = -1
    /\ \E i \in Inumbers :
          freeinode_ts[i] = FREE /\ inode_table[i].i_data_block = -1

\* ML[k] is an open called with every open-file entry Taken
OpenOnFullTable(k) ==
    /\ ML[k].op = "open"
    /\ \A h \in Handles : ML[k].saved.free_open_file_entries[h] = TAKEN

\* ... that carries CREATE for a valid absent path, with a free inode slot
\* and an empty root directory entry to create it in
CreatesOnFullTable(k) ==
    /\ OpenOnFullTable(k)
    /\ TFS_O_CREAT \in ML[k].flags /\ valid_pathname(ML[k].name)
    /\ ML[k].pre.inum = -1
    /\ \E i \in Inumbers : ML[k].saved.freeinode_ts[i] = FREE
    /\ \E e \in 0..(MAX_DIR_ENTRIES - 1) : ML[k].saved.dir_entry[e].d_inumber = -1

\* C20: when all MAX_OPEN_FILES entries are Taken, open returns -1 and takes
\* no entry; if it carried CREATE for an absent path the file nevertheless
\* remains created: its inode stays Taken and a later lookup of the path
\* returns its inumber.
C20_OpenTableExhausted ==
    \A k \in 1..Len(ML) :
        /\ OpenOnFullTable(k)
              => /\ ML[k].ret = -1
                 /\ ML[k].kept.free_open_file_entries
                 /\ ML[k].kept.open_file_table
        /\ CreatesOnFullTable(k)
              => /\ valid_inumber(ML[k].node.inum)
                 /\ freeinode_ts[ML[k].node.inum] = TAKEN
                 /\ ML[k].saved.freeinode_ts[ML[k].node.inum] = FREE
                 /\ \A j \in (k + 1)..Len(ML) :
                        (ML[j].op = "open" /\ ML[j].name = ML[k].name)
                            => ML[j].pre.inum = ML[k].node.inum

\* a create on the full table has failed, and after a close a later open of
\* the same path has found the file and returned a handle
C20_Witness ==
    \E k \in 1..Len(ML) :
        /\ CreatesOnFullTable(k) /\ ML[k].ret = -1
        /\ \E j \in (k + 1)..Len(ML) :
              /\ ML[j].op = "open" /\ ML[j].name = ML[k].name
              /\ ML[j].ret >= 0

\* the call ML[k] changed neither a table, nor an inode, nor a block
ChangedNothing(k) ==
    /\ \A f \in DOMAIN ML[k].kept : ML[k].kept[f]
    /\ \A f \in DOMAIN ML[k].keptfs : ML[k].keptfs[f]

\* C21: close(h) returns 0 exactly when h is in [0, MAX_OPEN_FILES) and
\* entry h is Taken, and then marks entry h Free and changes nothing else;
\* for an out-of-range handle or an entry that is already Free (a second
\* close of the same handle) it returns -1 and changes nothing.
C21_Close ==
    \A k \in 1..Len(ML) :
        ML[k].op = "close" =>
            LET h == ML[k].fh
                open == /\ h >= 0 /\ h < MAX_OPEN_FILES
                        /\ ML[k].saved.free_open_file_entries[h] = TAKEN
            IN IF open
               THEN /\ ML[k].ret = 0
                    /\ ML[k].after = [ML[k].saved EXCEPT
                           !.free_open_file_entries =
                               [ML[k].saved.free_open_file_entries EXCEPT ![h] = FREE]]
                    /\ \A f \in DOMAIN ML[k].keptfs : ML[k].keptfs[f]
               ELSE ML[k].ret = -1 /\ ChangedNothing(k)

\* a handle was closed with 0, closed again with -1, and a close of a
\* handle outside the table returned -1
C21_Witness ==
    \E k \in 1..Len(ML) :
        /\ Has(k, 2)
        /\ ML[k].op = "close" /\ ML[k].ret = 0
        /\ ML[k + 1].op = "close" /\ ML[k + 1].fh = ML[k].fh /\ ML[k + 1].ret = -1
        /\ ML[k + 2].op = "close" /\ ML[k + 2].fh = MAX_OPEN_FILES
        /\ ML[k + 2].ret = -1

\* thread t holds none of the locks of the open-file entries and the inodes
HoldsNone(t) ==
    /\ \A h \in Handles : open_file_mutex[h] /= t
    /\ \A i \in Inumbers : inode_mutex[i] /= t /\ t \notin inode_rwlock[i]

\* a read or write of no bytes, or through a handle outside the table
BadCall(c) ==
    /\ c.op \in {"read", "write"}
    /\ c.n = 0 \/ c.fh < 0 \/ c.fh >= MAX_OPEN_FILES

\* C22: a read with len == 0, a write with to_write == 0, and a read or
\* write with a handle outside [0, MAX_OPEN_FILES) return -1, modify no
\* inode, block, bitmap or open-file entry, and leave the caller holding no
\* lock.
C22_ArgumentValidation ==
    /\ \A k \in 1..Len(ML) :
           BadCall(ML[k]) => ML[k].ret = -1 /\ ChangedNothing(k)
    /\ \A t \in Threads :
           (th[t].pc = "ret" /\ BadCall(th[t])) => HoldsNone(t)

\* each of the four kinds of rejected call has returned, after a write that
\* stored a byte
C22_Witness ==
    /\ \E k \in 1..Len(ML) : ML[k].op = "write" /\ ML[k].ret > 0
    /\ \E k \in 1..Len(ML) : ML[k].op = "write" /\ ML[k].n = 0 /\ ML[k].ret = -1
    /\ \E k \in 1..Len(ML) : ML[k].op = "read" /\ ML[k].n = 0 /\ ML[k].ret = -1
    /\ \E k \in 1..Len(ML) :
          ML[k].op = "write" /\ ML[k].fh = MAX_OPEN_FILES /\ ML[k].ret = -1
    /\ \E k \in 1..Len(ML) : ML[k].op = "read" /\ ML[k].fh = -1 /\ ML[k].ret = -1

\* the earlier opens of the path of ML[k] that returned a handle
OpenedBefore(k) ==
    { j \in 1..(k - 1) :
        ML[j].op = "open" /\ ML[j].name = ML[k].name /\ ML[j].ret >= 0 }

\* the path of the open ML[k] is present when the call starts: a lookup
\* finds it, or an earlier open of it has returned a handle (files are never
\* deleted)
PresentAt(k) == ML[k].pre.inum /= -1 \/ OpenedBefore(k) /= {}

\* C23: open creates a File inode and a root directory entry if and only
\* if the path is absent and CREATE is set: when the path is already
\* present (whatever the flags) the inode bitmap and the directory block
\* are unchanged and the handle refers to the existing inumber; when the
\* path is absent and CREATE is not set, open returns -1 and the open-file
\* table is unchanged as well.
C23_CreateOnlyWhenAbsent ==
    \A k \in 1..Len(ML) :
        (ML[k].op = "open" /\ valid_pathname(ML[k].name)) =>
            IF PresentAt(k)
            THEN /\ ML[k].kept.freeinode_ts /\ ML[k].kept.dir_entry
                 /\ ML[k].ret >= 0
                       => /\ ML[k].post.inum = ML[k].pre.inum
                          /\ \A j \in OpenedBefore(k) :
                                 ML[k].post.inum = ML[j].post.inum
            ELSE IF TFS_O_CREAT \in ML[k].flags
            THEN ML[k].ret >= 0
                     => /\ ~ML[k].kept.freeinode_ts /\ ~ML[k].kept.dir_entry
                        /\ ML[k].saved.freeinode_ts[ML[k].post.inum] = FREE
                        /\ ML[k].after.freeinode_ts[ML[k].post.inum] = TAKEN
            ELSE /\ ML[k].ret = -1
                 /\ \A f \in DOMAIN ML[k].kept : ML[k].kept[f]

\* the state tfs_init leaves
FreshFS ==
    /\ freeinode_ts[ROOT_DIR_INUM] = TAKEN
    /\ inode_table[ROOT_DIR_INUM].i_node_type = T_DIRECTORY
    /\ inode_table[ROOT_DIR_INUM].i_size = BLOCK_SIZE
    /\ \A e \in 0..(MAX_DIR_ENTRIES - 1) : dir_entry[e].d_inumber = -1
    /\ \A i \in Inumbers \ {ROOT_DIR_INUM} : freeinode_ts[i] = FREE
    /\ \A h \in Handles : free_open_file_entries[h] = FREE
    /\ Cardinality({b \in Blocks : free_blocks[b] = TAKEN}) = 1

\* the path of the open ML[j] was not created between ML[k] and ML[j]
NotCreatedBetween(k, j) ==
    \A m \in (k + 1)..(j - 1) :
        ~(ML[m].op = "open" /\ ML[m].name = ML[j].name /\ TFS_O_CREAT \in ML[m].flags)

\* C24: after init returns success, inode 0 is Taken with kind Directory
\* and size BLOCK_SIZE, every root directory entry is empty, no other inode
\* slot and no open-file entry is Taken, and exactly one data block is
\* Taken; this also holds when init is called again after files were
\* created and opened, so that every earlier path then looks up to -1.
C24_Init ==
    /\ (Len(ML) = 0 /\ Quiescent) => FreshFS
    /\ \A k \in 1..Len(ML) :
           (ML[k].op = "init" /\ ML[k].ret = 0) =>
               /\ JustReturned(k) => FreshFS
               /\ \A j \in (k + 1)..Len(ML) :
                      (ML[j].op = "open" /\ NotCreatedBetween(k, j))
                          => ML[j].pre.inum = -1

\* init was called with two files created, one of them written and both
\* open, and a later open of each of the two paths has returned -1
C24_Witness ==
    \E k \in 1..Len(ML) :
        /\ ML[k].op = "init" /\ ML[k].ret = 0
        /\ Cardinality({i \in Inumbers : ML[k].saved.freeinode_ts[i] = TAKEN}) = 3
        /\ Cardinality({b \in Blocks : ML[k].saved.free_blocks[b] = TAKEN}) >= 2
        /\ \E h \in Handles : ML[k].saved.free_open_file_entries[h] = TAKEN
        /\ Has(k, 2)
        /\ ML[k + 1].op = "open" /\ ML[k + 1].name = PathA /\ ML[k + 1].ret = -1
        /\ ML[k + 2].op = "open" /\ ML[k + 2].name = PathB /\ ML[k + 2].ret = -1

\* ---------------------------------------------------------------------
\* Truncation against reads and writes of the same file: the main thread
\* creates "/a", writes it, and reopens it; each worker then reads or
\* writes through main's handle or opens "/a" with TFS_O_TRUNC
\* (part_000:44-56 runs its workers the same way).
TruncMain(size) ==
    <<OpenC(PathA, {TFS_O_CREAT}), WriteC(<<0, 1>>, size, 1, 1),
      CloseC(<<0, 1>>), OpenC(PathA, {}), JoinC>>

\* what a worker calls: a write or a read through main's handle, or a
\* truncating open of the same file
TruncCalls ==
    <<WriteC(<<0, 4>>, 1, 5, 1), ReadC(<<0, 4>>, 1),
      OpenC(PathA, {TFS_O_TRUNC})>>

\* the workers are interchangeable, so their calls are drawn in
\* non-decreasing order; one worker at most writes, which keeps the file
\* within its first block
InitTrunc ==
    /\ InitFS
    /\ \E call \in [Workers -> DOMAIN TruncCalls] :
          /\ \A a \in Workers, b \in Workers :
                a < b => call[a] <= call[b] /\ call[b] /= 1
          /\ prog = [t \in Threads |->
                       IF t = 0 THEN TruncMain(1)
                       ELSE <<TruncCalls[call[t]]>>]

\* the steps of thread t; the file stays within the direct region, and
\* the programs never reach the rollback of a create
TruncStep(t) ==
    \/ Call(t)
    \/ Return(t)
    \/ tfs_open_lookup(t)
    \/ tfs_open_lock(t)
    \/ tfs_open_trunc(t)
    \/ tfs_open_free(t)
    \/ tfs_open_zero(t)
    \/ tfs_open_offset(t)
    \/ inode_create(t)
    \/ add_dir_entry(t)
    \/ add_to_open_file_table(t)
    \/ tfs_close(t)
    \/ tfs_write_begin(t)
    \/ tfs_write_lock(t)
    \/ tfs_write_inode_lock(t)
    \/ tfs_write_case(t)
    \/ tfs_write_direct_region(t)
    \/ data_block_alloc(t)
    \/ direct_block_insert_store(t)
    \/ direct_block_insert_get(t)
    \/ direct_block_insert_chk(t)
    \/ direct_block_insert_memset(t)
    \/ direct_block_insert_link(t)
    \/ tfs_write_block(t)
    \/ tfs_write_memcpy(t)
    \/ tfs_write_advance(t)
    \/ tfs_write_size(t)
    \/ tfs_write_direct_done(t)
    \/ tfs_write_unlock(t)
    \/ tfs_write_file_unlock(t)
    \/ tfs_read_begin(t)
    \/ tfs_read_lock(t)
    \/ tfs_read_inode_lock(t)
    \/ tfs_read_case(t)
    \/ tfs_read_direct_enter(t)
    \/ tfs_read_direct_region(t)
    \/ tfs_read_memcpy(t)
    \/ tfs_read_advance(t)
    \/ tfs_read_direct_done(t)
    \/ tfs_read_unlock(t)
    \/ tfs_read_file_unlock(t)

NextTrunc ==
    \/ Join
    \/ \E t \in Threads : TruncStep(t)

SpecTrunc == InitTrunc /\ [][NextTrunc]_vars

\* thread t is inside tfs_read or tfs_write holding inode i's lock
InsideReadWrite(t, i) == t \in inode_rwlock[i]

\* thread t is at the size and block-free update of open(p, TFS_O_TRUNC)
\* on inode i (config.h:99-108)
Truncating(t, i) ==
    /\ th[t].pc \in {"open_free", "open_zero"}
    /\ th[t].inum = i

\* C25: while a thread is inside read or write between acquiring and
\* releasing inode i's lock, no other thread executes the size and
\* block-free update of open(p, TRUNC) on inode i, and vice versa.
C25_TruncationExcluded ==
    \A t1 \in Threads, t2 \in Threads, i \in DOMAIN inode_table :
        t1 /= t2 => ~(InsideReadWrite(t1, i) /\ Truncating(t2, i))

\* the block the inode registers for block k of the file: the direct slot,
\* or the slot of the indirect block the reference slot names
\* (config.h:558-566)
LayoutBlock(i, k) ==
    LET ref == inode_table[i].i_block[MAX_DIRECT_BLOCKS]
    IN IF k < MAX_DIRECT_BLOCKS THEN inode_table[i].i_block[k]
       ELSE IF valid_block_number(ref) THEN RefAt(ref, k - MAX_DIRECT_BLOCKS)
       ELSE -1

\* every write of the history up to entry k returned its count, and no
\* open of the history truncated
OnlyWritesSucceeded(k) ==
    \A j \in 1..k :
        /\ ML[j].op = "write" => ML[j].ret = ML[j].n
        /\ ML[j].op = "open" => TFS_O_TRUNC \notin ML[j].flags
        /\ ML[j].op /= "init"

\* C26: after any single-threaded sequence of successful writes, the block
\* that holds block k of a file is i_block[k] for a direct k and slot
\* k - MAX_DIRECT_BLOCKS of the indirect block for the others, whatever
\* indices the allocator handed out: the bytes a write has just stored are
\* found in the blocks the inode registers for them.
C26_FileLayout ==
    \A k \in 1..Len(ML) :
        (JustReturned(k) /\ OnlyWritesSucceeded(k) /\ ML[k].op = "write"
           /\ ML[k].pre.inum /= -1)
        => \A j \in 0..(ML[k].n - 1) :
              LET pos == ML[k].at + j
                  b == LayoutBlock(ML[k].pre.inum, pos \div BLOCK_SIZE)
              IN /\ valid_block_number(b)
                 /\ fs_data[b][pos % BLOCK_SIZE]
                       = BufByte(ML[k].base, ML[k].stride, j)

\* entry k of main's history is a read of a positive count through an
\* open handle
ReadAt(k) ==
    /\ ML[k].op = "read" /\ ML[k].n > 0
    /\ valid_file_handle(ML[k].fh) /\ ML[k].pre.inum /= -1

\* the bytes between the handle's offset and the end of the file
BytesLeft(k) ==
    IF ML[k].pre.offset > ML[k].pre.size THEN 0
    ELSE ML[k].pre.size - ML[k].pre.offset

\* C27: read returns exactly min(len, bytes between the offset and the end
\* of the file) and advances the offset by that count, for every reachable
\* pair of offset and size; with the offset beyond the size (the file was
\* truncated through another open after the handle advanced) it returns 0
\* and copies nothing.
C27_ReadCount ==
    \A k \in 1..Len(ML) :
        ReadAt(k) =>
            /\ ML[k].ret = Min(ML[k].n, BytesLeft(k))
            /\ ML[k].post.offset = ML[k].pre.offset + ML[k].ret
            /\ ML[k].pre.offset > ML[k].pre.size
                   => ML[k].ret = 0 /\ ML[k].out = <<>>

\* ---------------------------------------------------------------------
\* The locks of the file system.  A lock is <<class, object, index>>: the
\* class is its place in the documented order, the object the pthread
\* object of the code, the index the table entry it belongs to.
LockOrder == <<"file_map", "open_file", "inode_map", "inode", "data_blocks">>

LockRank(lock) == CHOOSE r \in 1..Len(LockOrder) : LockOrder[r] = lock[1]

fs_state_mutex == <<"file_map", "fs_state_mutex", 0>>
fs_state_rwlock == <<"file_map", "fs_state_rwlock", 0>>
inode_table_mutex == <<"inode_map", "inode_table_mutex", 0>>
inode_table_rwlock == <<"inode_map", "inode_table_rwlock", 0>>
data_blocks_mutex == <<"data_blocks", "data_blocks_mutex", 0>>
open_file_mutex_of(h) == <<"open_file", "open_file_mutex", h>>
inode_mutex_of(i) == <<"inode", "inode_mutex", i>>
inode_rwlock_of(i) == <<"inode", "inode_rwlock", i>>

Lock(lock) == [do |-> "lock", lock |-> lock]
Unlock(lock) == [do |-> "unlock", lock |-> lock]
Section(lock) == <<Lock(lock), Unlock(lock)>>

\* the locks thread t holds between two steps: the locks of table entries;
\* the locks of the maps and of the data pool are taken and released inside
\* one step
HeldLocks(t) ==
    { open_file_mutex_of(h) : h \in { x \in DOMAIN open_file_mutex : open_file_mutex[x] = t } }
    \cup { inode_mutex_of(i) : i \in { x \in DOMAIN inode_mutex : inode_mutex[x] = t } }
    \cup { inode_rwlock_of(i) : i \in { x \in DOMAIN inode_rwlock : t \in inode_rwlock[x] } }

\* the lock and unlock calls the next step of a thread makes, in the order
\* of the code
LockCalls(l) ==
    CASE l.pc = "open" ->
           \* tfs_lookup -> find_in_dir (config.h:860-891)
           IF valid_pathname(l.name)
           THEN Section(inode_table_rwlock) \o Section(fs_state_mutex)
           ELSE <<>>
      [] l.pc = "open_lock" ->
           \* config.h:80-84, 91
           Section(inode_table_rwlock)
           \o (IF inode_get(l.inum) = NULL THEN <<>>
               ELSE <<Lock(inode_mutex_of(l.inum))>>)
      [] l.pc = "open_free" ->
           \* config.h:100-105, data_block_free 936-940
           IF valid_block_number(inode_table[l.inum].i_data_block)
           THEN Section(data_blocks_mutex)
           ELSE <<Unlock(inode_mutex_of(l.inum))>>
      [] l.pc = "open_offset" -> <<Unlock(inode_mutex_of(l.inum))>>
      [] l.pc = "inode_create" -> Section(inode_table_mutex)
      [] l.pc = "add_dir_entry" ->
           \* config.h:803-846
           Section(inode_table_rwlock) \o Section(fs_state_mutex)
      [] l.pc = "inode_delete" ->
           \* config.h:753-769: data_block_free inside the inode table's
           \* critical section when the inode has data
           IF valid_inumber(l.inum) /\ freeinode_ts[l.inum] = TAKEN
              /\ inode_table[l.inum].i_size > 0
              /\ valid_block_number(inode_table[l.inum].i_data_block)
           THEN <<Lock(inode_table_mutex)>> \o Section(data_blocks_mutex)
                \o <<Unlock(inode_table_mutex)>>
           ELSE Section(inode_table_mutex)
      [] l.pc = "open_add" -> Section(fs_state_mutex)
      [] l.pc = "close" -> Section(fs_state_mutex)
      [] l.pc = "init" ->
           \* inode_create(T_DIRECTORY), config.h:691-730
           <<Lock(inode_table_mutex)>> \o Section(data_blocks_mutex)
           \o <<Unlock(inode_table_mutex)>>
      [] l.pc \in {"write", "read"} ->
           \* config.h:172-176, 316-320
           IF nothing_to_do(l.n) THEN <<>> ELSE Section(fs_state_rwlock)
      [] l.pc \in {"write_lock", "read_lock"} ->
           <<Lock(open_file_mutex_of(l.fh))>>
           \o (IF inode_get(open_file_table[l.fh].of_inumber) = NULL
               THEN <<Unlock(open_file_mutex_of(l.fh))>> ELSE <<>>)
      [] l.pc \in {"write_ilock", "read_ilock"} -> <<Lock(inode_rwlock_of(l.inum))>>
      [] l.pc = "alloc" ->
           IF l.scan < DATA_BLOCKS THEN Section(data_blocks_mutex) ELSE <<>>
      [] l.pc \in {"write_unlock", "read_unlock"} -> <<Unlock(inode_rwlock_of(l.inum))>>
      [] l.pc \in {"write_unlock2", "read_unlock2"} -> <<Unlock(open_file_mutex_of(l.fh))>>
      [] OTHER -> <<>>

\* the locks held after the calls
RECURSIVE HeldAfter(_, _)
HeldAfter(held, calls) ==
    IF calls = <<>> THEN held
    ELSE HeldAfter(IF Head(calls).do = "lock" THEN held \cup {Head(calls).lock}
                   ELSE held \ {Head(calls).lock},
                   Tail(calls))

\* every lock call asks for a lock that is not held and that is not earlier
\* in the order than a lock that is held
RECURSIVE InOrder(_, _)
InOrder(held, calls) ==
    IF calls = <<>> THEN TRUE
    ELSE /\ Head(calls).do = "lock" =>
               /\ Head(calls).lock \notin held
               /\ \A h \in held : LockRank(h) <= LockRank(Head(calls).lock)
         /\ InOrder(HeldAfter(held, <<Head(calls)>>), Tail(calls))

\* C28: in open, close, lookup, read and write no thread requests a lock
\* that is earlier in the order file_map, open_file[h], inode_map,
\* inode[i], data_blocks than a lock it holds, and no thread requests a
\* lock it already holds.
C28_LockOrder ==
    \A t \in Threads : InOrder(HeldLocks(t), LockCalls(th[t]))

\* a thread that holds its handle's mutex and the inode's lock asks for the
\* lock of the data blocks
C28_Witness ==
    \E t \in Threads :
        /\ th[t].pc = "alloc" /\ th[t].scan < DATA_BLOCKS
        /\ open_file_mutex_of(th[t].fh) \in HeldLocks(t)
        /\ inode_rwlock_of(th[t].inum) \in HeldLocks(t)

\* the lock calls of a step are the ones that change what the thread holds
LockCallsAgree ==
    [][\A t \in Threads :
          th'[t] /= th[t] => HeldLocks(t)' = HeldAfter(HeldLocks(t), LockCalls(th[t]))]_vars

\* The same programs under fair scheduling: as long as some thread can take
\* a step, the scheduler runs one.  Nothing is assumed about which thread
\* it picks or about who gets a contended lock.
SpecTruncFair == SpecTrunc /\ WF_vars(NextTrunc)

\* thread t is inside a call of the file system
InCall(t) == th[t].pc \notin {"idle", "join"}

\* thread t waits for a lock that another thread holds
Blocked(t) ==
    \/ /\ th[t].pc \in {"write_lock", "read_lock"}
       /\ open_file_mutex[th[t].fh] \notin {-1, t}
    \/ /\ th[t].pc = "open_lock" /\ inode_get(th[t].inum) /= NULL
       /\ inode_mutex[th[t].inum] \notin {-1, t}

\* C29: under fair scheduling every call of open, close, read and write
\* eventually returns, under every interleaving: no thread stays blocked on
\* a lock forever.
C29_CallsReturn ==
    \A t \in Threads : []<>(~InCall(t))

\* a thread waits for a lock that another thread holds
C29_Witness == \E t \in Threads : Blocked(t)

\* thread t has just returned from an API call, or is between calls
Returned(t) == th[t].pc \in {"ret", "idle", "join"}

\* C30: whenever an API operation returns, with success or with -1, the
\* calling thread holds none of the file system's locks; in read and write
\* the locks are released in reverse acquisition order, the inode's lock
\* before the open-file entry's mutex, on every path: a thread that holds
\* an inode's read lock holds the mutex of its handle, and the locks of the
\* maps and of the data blocks are released by the step that takes them.
C30_LocksReleased ==
    \A t \in Threads :
        /\ Returned(t) => HeldLocks(t) = {}
        /\ \A i \in Inumbers :
              inode_rwlock_of(i) \in HeldLocks(t)
                  => open_file_mutex_of(th[t].fh) \in HeldLocks(t)
        /\ \A lock \in HeldAfter(HeldLocks(t), LockCalls(th[t])) :
              lock[1] \in {"open_file", "inode"}

\* a write that took both locks has failed in the direct region and
\* returned -1
C30_Witness ==
    \E t \in Threads :
        /\ th[t].pc = "ret" /\ th[t].op = "write" /\ th[t].ret = -1
        /\ th[t].dbytes = -1

\* ---------------------------------------------------------------------
\* Several threads write through one handle (part_000:123-185): the main
\* thread creates "/a", writes the first bytes of the file through the
\* handle, and every worker then writes through the same handle.
SharedMain(first) ==
    <<OpenC(PathA, {TFS_O_CREAT})>>
    \o (IF first = 0 THEN <<>> ELSE <<WriteC(<<0, 1>>, first, 1, 1)>>)
    \o <<JoinC>>

\* the workers are interchangeable, so their counts are drawn in
\* non-decreasing order
InitShared ==
    /\ InitFS
    /\ \E first \in {0, BLOCK_SIZE}, len \in [Workers -> {1, BLOCK_SIZE}] :
          /\ \A a \in Workers, b \in Workers : a < b => len[a] <= len[b]
          /\ prog = [t \in Threads |->
                       IF t = 0 THEN SharedMain(first)
                       ELSE <<WriteC(<<0, 1>>, len[t], FillByte(t), 0)>>]

SharedStep(t) ==
    \/ Call(t)
    \/ Return(t)
    \/ tfs_open_lookup(t)
    \/ inode_create(t)
    \/ add_dir_entry(t)
    \/ add_to_open_file_table(t)
    \/ tfs_write_begin(t)
    \/ tfs_write_lock(t)
    \/ tfs_write_inode_lock(t)
    \/ tfs_write_case(t)
    \/ tfs_write_case2(t)
    \/ tfs_write_straddle(t)
    \/ tfs_write_direct_region(t)
    \/ data_block_alloc(t)
    \/ direct_block_insert_store(t)
    \/ direct_block_insert_get(t)
    \/ direct_block_insert_chk(t)
    \/ direct_block_insert_memset(t)
    \/ direct_block_insert_link(t)
    \/ tfs_write_block(t)
    \/ tfs_write_memcpy(t)
    \/ tfs_write_advance(t)
    \/ tfs_write_size(t)
    \/ tfs_write_direct_done(t)
    \/ tfs_write_handle_check(t)
    \/ tfs_handle_indirect_block(t)
    \/ tfs_handle_indirect_memset(t)
    \/ tfs_write_straddle_chk(t)
    \/ tfs_write_indirect_region(t)
    \/ tfs_write_indirect_chk(t)
    \/ indirect_block_insert_store(t)
    \/ indirect_block_insert_memset(t)
    \/ indirect_block_insert_link(t)
    \/ tfs_write_indirect_done(t)
    \/ tfs_write_unlock(t)
    \/ tfs_write_file_unlock(t)

NextShared ==
    \/ Join
    \/ \E t \in Threads : SharedStep(t)

SpecShared == InitShared /\ [][NextShared]_vars

\* thread t is in the copy phase of a write: between the choice of the
\* destination block and the update of offset and size (config.h:1046-1066)
Copying(t) ==
    th[t].op = "write" /\ th[t].pc \in {"w_get", "w_copy", "w_adv", "w_size"}

\* every worker has made its call and returned
WorkersReturned ==
    \A w \in Workers : th[w].pc = "idle" /\ prog[w] = <<>> /\ Len(log[w]) = 1

AllocReturns(t) ==
    th[t].pc = "alloc" /\ th'[t].pc /= "alloc" /\ th'[t].r /= -1

\* the step of thread t is an inode_create that returns an inumber
\* (config.h:694-731)
CreateReturns(t) ==
    th[t].pc = "inode_create" /\ th'[t].pc = "add_dir_entry"

\* the threads that were handed block b and have not yet stored it in an
\* inode, and the threads that were handed inumber i and have not yet
\* entered it in the directory
FreshBlock(t, b) ==
    th[t].pc \in {"dbi_store", "hib_done", "ibi_done"} /\ th[t].r = b

FreshInode(t, i) == th[t].pc = "add_dir_entry" /\ th[t].inum = i

\* C32: under every interleaving data_block_alloc never returns a block
\* that is already Taken and inode_create never returns an inumber that is
\* already Taken, so two concurrent callers never receive the same index
\* (nothing is freed in these programs).
C32_ExclusiveAllocation ==
    /\ [][\A t \in Threads :
             /\ AllocReturns(t) =>
                   /\ free_blocks[th'[t].r] = FREE
                   /\ free_blocks'[th'[t].r] = TAKEN
             /\ CreateReturns(t) =>
                   /\ freeinode_ts[th'[t].inum] = FREE
                   /\ freeinode_ts'[th'[t].inum] = TAKEN]_vars
    /\ [](\A a \in Threads, b \in Threads :
             a /= b =>
                /\ \A x \in Blocks : ~(FreshBlock(a, x) /\ FreshBlock(b, x))
                /\ \A i \in Inumbers : ~(FreshInode(a, i) /\ FreshInode(b, i)))

\* two threads hold inumbers that inode_create has just handed out
C32_Witness ==
    \E a \in Threads, b \in Threads :
        /\ a /= b
        /\ \E i \in Inumbers : FreshInode(a, i)
        /\ \E i \in Inumbers : FreshInode(b, i)

\* the number of blocks of an allocation map that are taken
TakenBlocks(map) == Cardinality({b \in Blocks : map[b] = TAKEN})

\* the blocks data_block_alloc handed out during entry j of main's history
AllocatedBy(j) ==
    TakenBlocks(ML[j].after.free_blocks) - TakenBlocks(ML[j].saved.free_blocks)

\* the blocks the writes to inode i allocated in entries 1..k
RECURSIVE AllocatedFor(_, _)
AllocatedFor(i, k) ==
    IF k = 0 THEN 0
    ELSE AllocatedFor(i, k - 1)
         + (IF ML[k].op = "write" /\ ML[k].pre.inum = i THEN AllocatedBy(k) ELSE 0)

\* the blocks a file of the given size needs: one per BLOCK_SIZE bytes, and
\* the indirect block once it is assigned
BlocksNeeded(i) ==
    (inode_table[i].i_size + BLOCK_SIZE - 1) \div BLOCK_SIZE
    + (IF valid_block_number(inode_table[i].i_block[MAX_DIRECT_BLOCKS])
       THEN 1 ELSE 0)

\* no write of the history up to entry k failed, no open truncated, and the
\* file system was not initialised again
NoWriteFailed(k) ==
    \A j \in 1..k :
        /\ ML[j].op = "write" => ML[j].ret /= -1
        /\ ML[j].op = "open" => TFS_O_TRUNC \notin ML[j].flags
        /\ ML[j].op /= "init"

\* C33: single-threaded and without truncation, after any sequence of
\* successful writes to a file through any of its handles, the number of
\* blocks the write path allocated for it is ceil(i_size / BLOCK_SIZE), plus
\* one when the indirect block is assigned; a write that returns 0 allocates
\* no block.
C33_BlockCount ==
    \A k \in 1..Len(ML) :
        (JustReturned(k) /\ NoWriteFailed(k) /\ ML[k].op = "write"
           /\ ML[k].pre.inum /= -1)
        => /\ AllocatedFor(ML[k].pre.inum, k) = BlocksNeeded(ML[k].pre.inum)
           /\ ML[k].ret = 0 => AllocatedBy(k) = 0

\* entry k of main's history is a read or a write of a positive count through
\* a handle of the table whose entry was Free when the call was made
FreeHandleAt(k) ==
    /\ ML[k].op \in {"read", "write"} /\ ML[k].n > 0
    /\ valid_file_handle(ML[k].fh)
    /\ ML[k].saved.free_open_file_entries[ML[k].fh] = FREE

\* C34: a read or a write through a handle in [0, MAX_OPEN_FILES) whose
\* open-file entry is Free returns -1 and modifies no inode, no data block
\* and no open-file entry.
C34_FreeHandle ==
    \A k \in 1..Len(ML) :
        (JustReturned(k) /\ FreeHandleAt(k))
        => /\ ML[k].ret = -1
           /\ \A f \in DOMAIN ML[k].keptfs : ML[k].keptfs[f]
           /\ \A f \in DOMAIN ML[k].kept : ML[k].kept[f]

\* entry k of main's history is a write of a positive count through an open
\* handle that returned -1
WriteFailedAt(k) ==
    /\ ML[k].op = "write" /\ ML[k].n > 0 /\ ML[k].pre.inum /= -1
    /\ ML[k].ret = -1

\* C35: whenever a write returns -1 (the pool ran out during the call, in
\* the direct, the indirect or the straddling case), the inode's size and
\* the handle's offset are what they were before the call, and so are the
\* inodes and the data blocks.
C35_FailedWrite ==
    \A k \in 1..Len(ML) :
        (JustReturned(k) /\ WriteFailedAt(k))
        => /\ ML[k].post.size = ML[k].pre.size
           /\ ML[k].post.offset = ML[k].pre.offset
           /\ ML[k].keptfs.fs_data

\* thread t is about to store the block it was handed: direct_block_insert
\* into slot direct_slot(b) of the inode's i_block, indirect_block_insert
\* into int indirect_slot(b) of the assigned indirect block
DirectStoreAt(t) == th[t].pc = "dbi_link"

IndirectStoreAt(t) == th[t].pc = "ibi_link" /\ th[t].ib /= NULL

\* C36: for every block index the allocator can return, direct_block_insert
\* stores only into the direct slots i_block[0 .. MAX_DIRECT_BLOCKS - 1] and
\* indirect_block_insert only into the ints 0 .. BLOCK_SIZE / sizeof(int) - 1
\* of the assigned indirect block, so no store lands outside the inode's
\* slot array or outside the indirect block.
C36_StoresInBounds ==
    \A t \in Threads :
        /\ DirectStoreAt(t) =>
              direct_slot(inode_table[th[t].inum].i_data_block)
                  \in 0..(MAX_DIRECT_BLOCKS - 1)
        /\ IndirectStoreAt(t) =>
              indirect_slot(th[t].r) \in 0..((BLOCK_SIZE \div INT_SIZE) - 1)

====
